---------------------------- MODULE Spec2Model ----------------------------
(***************************************************************************)
(* duco2mqtt: change-tracked fields, the Device and Node entities built    *)
(* on them, and the command path of a Node.                                *)
(*                                                                         *)
(* Every specification below shares the variables of the module; a        *)
(* specification leaves the variables of the other parts unchanged.        *)
(***************************************************************************)
EXTENDS Integers, Sequences, FiniteSets, TLC

VARIABLES
    iv,        \* an InfoValue: [value : StatusValue, modified : BOOLEAN]
    rv,        \* a RegisterValue: [value : Option<u16>, modified : BOOLEAN]
    fop,       \* history: the last operation applied to iv or rv
    fprev,     \* history: the name and object of the operation before fop
    taken,     \* history: per object, the value its last get_and_reset returned
    dev,       \* DucoBoxDevice.status: key -> InfoValue
    node,      \* a DucoBoxNode: [number, node_type, status, actions]
    eop,       \* history: the last operation applied to dev or node
    eprev,     \* history: the operation before eop and the length of its output
    rst,       \* history: the keys known and the keys dirty before the last reset
    scen,      \* history: how far a new Node is into update, drain, update, drain
    cop,       \* history: the last command handled and the request it posted
    ctopic,    \* a command topic, after the base prefix, as a sequence of characters
    tres,      \* history: the parser last applied to topic and what it returned
    br,        \* the bridge: [nodes, online, hass_discovery, loop]
    mq,        \* the calls of client.publish made by the last loop iteration
    hist,      \* history: the last loop iteration and the availability published
    obs,       \* history: what the last poll fetched and the bus last accepted per topic
    lp         \* run, await by await: the await the task is parked on and what is pending

fieldVars == <<iv, rv, fop, fprev, taken>>

entityVars == <<dev, node, eop, eprev, rst, scen>>

cmdVars == <<cop>>

topicVars == <<ctopic, tres>>

bridgeVars == <<br, mq, hist, obs>>

loopVars == <<lp>>

restVars == <<topicVars, bridgeVars, loopVars>>

vars == <<iv, rv, fop, fprev, taken, dev, node, eop, eprev, rst, scen, cop, ctopic, tres, br, mq, hist,
          obs, lp>>

-----------------------------------------------------------------------------
(* StatusValue (ducoapi.rs): enum { String(String), Number(i64) }.  A value *)
(* is a record of one shape, [tag, s, n]; the field its variant does not    *)
(* carry holds a fixed filler.  Option<u16> uses the same shape with the    *)
(* tags "None" and "Some".                                                  *)

StatusString(text) == [tag |-> "String", s |-> text, n |-> 0]

StatusNumber(num) == [tag |-> "Number", s |-> "", n |-> num]

Digit == <<"0", "1", "2", "3", "4", "5", "6", "7", "8", "9">>

RECURSIVE NatToString(_)
NatToString(k) ==
    IF k < 10 THEN Digit[k + 1]
    ELSE NatToString(k \div 10) \o Digit[(k % 10) + 1]

\* write!(f, "{}", n) for an integer
IntToString(k) == IF k < 0 THEN "-" \o NatToString(-k) ELSE NatToString(k)

\* impl fmt::Display for StatusValue
StatusValue_to_string(v) ==
    IF v.tag = "String" THEN v.s ELSE IntToString(v.n)

\* equality of the rendered text, whatever the variant
StatusValue_eq_by_text(a, b) == StatusValue_to_string(a) = StatusValue_to_string(b)

\* #[derive(PartialEq)]: same variant and same payload
StatusValue_eq(a, b) ==
    /\ a.tag = b.tag
    /\ IF a.tag = "String" THEN a.s = b.s ELSE a.n = b.n

UNKNOWN == "UNKNOWN"

\* a placeholder with the shape of an InfoValue, for maps with no keys
NoField == [value |-> StatusString(""), modified |-> FALSE]

OptNone == [tag |-> "None", s |-> "", n |-> 0]

OptSome(x) == [tag |-> "Some", s |-> "", n |-> x]

\* Option<u16> equality
Option_eq(a, b) ==
    /\ a.tag = b.tag
    /\ (a.tag = "Some" => a.n = b.n)

-----------------------------------------------------------------------------
(* InfoValue (infovalue.rs) and RegisterValue (duxoboxnode.rs)             *)

InfoValue_new_clean(value) == [value |-> value, modified |-> FALSE]

InfoValue_new(value) == [value |-> value, modified |-> TRUE]

InfoValue_set_always_dirty(f, val) == [value |-> val, modified |-> TRUE]

InfoValue_set_keeps_flag(f, val) == [value |-> val, modified |-> f.modified]

InfoValue_set(f, val) ==
    IF ~StatusValue_eq(val, f.value)
    THEN [value |-> val, modified |-> TRUE]
    ELSE f

InfoValue_modified(f) == f.modified

\* get_and_reset: the field it leaves, and the value it returns
InfoValue_get_and_reset_keeps_flag(f) == f

InfoValue_get_and_reset(f) == [value |-> f.value, modified |-> FALSE]

InfoValue_get_and_reset_result(f) == f.value

RegisterValue_new == [value |-> OptNone, modified |-> TRUE]

\* stores the value and leaves the flag alone
RegisterValue_set_keeps_flag(f, val) == [value |-> val, modified |-> f.modified]

RegisterValue_set(f, val) ==
    IF ~Option_eq(val, f.value)
    THEN [value |-> val, modified |-> TRUE]
    ELSE f

RegisterValue_clear(f) == RegisterValue_set(f, OptNone)

RegisterValue_modified(f) == f.modified

RegisterValue_get_and_reset(f) == [value |-> f.value, modified |-> FALSE]

RegisterValue_get_and_reset_result(f) == f.value

-----------------------------------------------------------------------------
(* DucoBoxDevice (ducoboxdevice.rs) and DucoBoxNode (ducoboxnode.rs): a    *)
(* status map from key to InfoValue.  A HashMap is a function whose domain *)
(* is the set of its keys; its iteration order is any order of the keys.   *)

MqttData(topic, payload) == [topic |-> topic, payload |-> payload]

EmptyMap == [k \in {} |-> NoField]

\* the orders in which a map with key set S may be iterated
IterationOrders(S) ==
    { o \in [1..Cardinality(S) -> S] : \A i, j \in DOMAIN o : o[i] = o[j] => i = j }

\* for each key of the map, in iteration order: if value.is_modified(),
\* push MqttData { topic, payload: value.get_and_reset().to_string() }
RECURSIVE DrainLoop(_, _, _, _, _)
DrainLoop(status, prefix, order, i, topics) ==
    IF i > Len(order) THEN [status |-> status, topics |-> topics]
    ELSE LET key == order[i] IN
         IF InfoValue_modified(status[key])
         THEN DrainLoop([status EXCEPT ![key] = InfoValue_get_and_reset(@)],
                        prefix, order, i + 1,
                        Append(topics,
                               MqttData(prefix \o key,
                                        StatusValue_to_string(
                                            InfoValue_get_and_reset_result(status[key])))))
         ELSE DrainLoop(status, prefix, order, i + 1, topics)

DucoBoxDevice_new == EmptyMap

\* for each field: value.set(StatusValue::String(UNKNOWN))
DucoBoxDevice_reset(status) ==
    [k \in DOMAIN status |-> InfoValue_set(status[k], StatusString(UNKNOWN))]

DucoBoxDevice_topics_keeps_flags(status, order) ==
    [status |-> status, topics |-> DrainLoop(status, "", order, 1, <<>>).topics]

\* [status |-> the map after the call, topics |-> the Vec<MqttData> returned]
DucoBoxDevice_topics_that_need_updating(status, order) ==
    DrainLoop(status, "", order, 1, <<>>)

DucoBoxDevice_merge_status_values(status, values) ==
    [k \in DOMAIN status \cup DOMAIN values |->
        IF k \in DOMAIN values
        THEN IF k \in DOMAIN status
             THEN InfoValue_set(status[k], values[k])
             ELSE InfoValue_new(values[k])
        ELSE status[k]]

\* dev: DeviceInfo, a record with the one field general
DucoBoxDevice_update_status(status, info) ==
    DucoBoxDevice_merge_status_values(status, info.general)

GENERAL == "General"

VENTILATION == "Ventilation"

SENSOR == "Sensor"

DucoBoxNode_create_for_node_type(node_type, number) ==
    [number |-> number, node_type |-> node_type, status |-> EmptyMap, actions |-> <<>>]

DucoBoxNode_reset_always_dirty(n) ==
    [n EXCEPT !.status =
        [k \in DOMAIN n.status |-> InfoValue_new(StatusString(UNKNOWN))]]

DucoBoxNode_reset(n) ==
    [n EXCEPT !.status =
        [k \in DOMAIN n.status |-> InfoValue_set(n.status[k], StatusString(UNKNOWN))]]

DucoBoxNode_status_topic_node_prefix(node_number, topic) ==
    "node_" \o IntToString(node_number) \o "/" \o topic

\* format!("duco_node_{}/{}", node_number, topic)
DucoBoxNode_status_topic(node_number, topic) ==
    "duco_node_" \o IntToString(node_number) \o "/" \o topic

DucoBoxNode_topics_unfiltered(n, order) ==
    [node |-> [n EXCEPT !.status = [k \in DOMAIN n.status |-> InfoValue_get_and_reset(n.status[k])]],
     topics |-> [i \in 1..Len(order) |->
                    MqttData(DucoBoxNode_status_topic(n.number, order[i]),
                             StatusValue_to_string(n.status[order[i]].value))]]

\* [node |-> the node after the call, topics |-> the Vec<MqttData> returned]
DucoBoxNode_topics_that_need_updating(n, order) ==
    LET r == DrainLoop(n.status, DucoBoxNode_status_topic(n.number, ""), order, 1, <<>>)
    IN [node |-> [n EXCEPT !.status = r.status], topics |-> r.topics]

\* format!("{sub_topic}/{name}")
StatusKey(sub_topic, name) == sub_topic \o "/" \o name

DucoBoxNode_merge_status_values_replace(status, sub_topic, values) ==
    LET keys == { StatusKey(sub_topic, name) : name \in DOMAIN values }
        nameOf(k) == CHOOSE name \in DOMAIN values : StatusKey(sub_topic, name) = k
    IN [k \in keys |->
           IF k \in DOMAIN status
           THEN InfoValue_set(status[k], values[nameOf(k)])
           ELSE InfoValue_new(values[nameOf(k)])]

DucoBoxNode_merge_status_values(status, sub_topic, values) ==
    LET keys == { StatusKey(sub_topic, name) : name \in DOMAIN values }
        nameOf(k) == CHOOSE name \in DOMAIN values : StatusKey(sub_topic, name) = k
    IN [k \in DOMAIN status \cup keys |->
           IF k \in keys
           THEN IF k \in DOMAIN status
                THEN InfoValue_set(status[k], values[nameOf(k)])
                ELSE InfoValue_new(values[nameOf(k)])
           ELSE status[k]]

\* the status map after update_status; the caller checks the node number
DucoBoxNode_update_status(n, report) ==
    LET g == DucoBoxNode_merge_status_values(n.status, GENERAL, report.general)
        v == DucoBoxNode_merge_status_values(g, VENTILATION, report.ventilation)
        x == IF report.sensor.some
             THEN DucoBoxNode_merge_status_values(v, SENSOR, report.sensor.map)
             ELSE v
    IN [n EXCEPT !.status = x]

-----------------------------------------------------------------------------
(* The inputs of the Device and Node operations, bounded.                  *)

\* every map from a subset of names to values
Maps(names, values) == UNION { [S -> values] : S \in SUBSET names }

\* maps that give each name a value of its own value set
FieldMaps(valuesOf) ==
    { m \in Maps(DOMAIN valuesOf, UNION { valuesOf[nm] : nm \in DOMAIN valuesOf }) :
        \A nm \in DOMAIN m : m[nm] \in valuesOf[nm] }

NodeNumbers == {2, 67}

GeneralValues ==
    [ Type |-> { StatusString("BOX") },
      SubType |-> { StatusNumber(1), StatusNumber(2), StatusString("1") } ]

SensorValues == [ IaqCo2 |-> { StatusNumber(1), StatusNumber(2) } ]

NoSensor == [some |-> FALSE, map |-> EmptyMap]

\* ducoapi::NodeInfo { node, general, ventilation, sensor: Option<..> }
NodeInfos ==
    [ node : NodeNumbers,
      general : FieldMaps(GeneralValues),
      ventilation : {EmptyMap},
      sensor : {NoSensor} \cup { [some |-> TRUE, map |-> m] : m \in FieldMaps(SensorValues) } ]

DeviceValues ==
    [ k \in {"General/Board/BoxName", "HeatRecovery/General/TimeFilterRemain"} |->
        IF k = "General/Board/BoxName"
        THEN { StatusString("ENERGY") }
        ELSE { StatusNumber(59), StatusNumber(60) } ]

\* ducoapi::DeviceInfo { general }, its keys already "<Group>/<SubGroup>/<Field>"
DeviceInfos == [ general : FieldMaps(DeviceValues) ]

\* the group-qualified keys a NodeInfo carries
ReportKeys(report) ==
    { StatusKey(GENERAL, nm) : nm \in DOMAIN report.general }
    \cup { StatusKey(VENTILATION, nm) : nm \in DOMAIN report.ventilation }
    \cup (IF report.sensor.some
          THEN { StatusKey(SENSOR, nm) : nm \in DOMAIN report.sensor.map }
          ELSE {})

\* the flattened report: group-qualified key -> reported value
ReportValues(report) ==
    [ k \in ReportKeys(report) |->
        IF \E nm \in DOMAIN report.general : StatusKey(GENERAL, nm) = k
        THEN report.general[CHOOSE nm \in DOMAIN report.general : StatusKey(GENERAL, nm) = k]
        ELSE IF \E nm \in DOMAIN report.ventilation : StatusKey(VENTILATION, nm) = k
        THEN report.ventilation[CHOOSE nm \in DOMAIN report.ventilation : StatusKey(VENTILATION, nm) = k]
        ELSE report.sensor.map[CHOOSE nm \in DOMAIN report.sensor.map : StatusKey(SENSOR, nm) = k] ]

NoValues == [k \in {} |-> StatusString("")]

\* vals: the values passed to update_status; out: the messages a drain
\* returned; dirty: the number of dirty fields before the operation
EntityOp(obj, op, vals, out, res, dirty) ==
    [obj |-> obj, op |-> op, vals |-> vals, out |-> out, res |-> res, dirty |-> dirty]

NoReset == [known |-> {}, dirty |-> {}]

NoTopicResult == [op |-> "none", ok |-> FALSE, node |-> 0, register |-> ""]

\* what a loop iteration that does not reach the device has fetched
NothingFetched ==
    [nodes |-> [ok |-> FALSE, list |-> <<>>], node_actions |-> [ok |-> FALSE, list |-> <<>>]]

\* obs before the first loop iteration; watch selects what the iterations
\* record: "poll" what the device returned and whether discovery ran, "bus"
\* the payload the bus last accepted on each watched topic
Unobserved(watch) ==
    [watch |-> watch, fetched |-> NothingFetched, discovery |-> FALSE, last |-> <<>>]

\* DucoMqttBridge::new, then run waiting in select!
NewBridge(hass_discovery) ==
    [nodes |-> <<>>, online |-> FALSE, hass_discovery |-> hass_discovery, loop |-> "select"]

\* the bridge after DucoMqttBridge::new, waiting in select!
BridgeIdle ==
    /\ br = NewBridge(FALSE)
    /\ mq = <<>>
    /\ hist = [kind |-> "none", res |-> "Ok", online0 |-> FALSE, avail0 |-> "none",
               avail |-> "none", owed0 |-> {}, owed |-> {},
               failed_poll |-> FALSE, failed_command |-> FALSE]
    /\ obs = Unobserved("none")

\* the parts of the state the specification at hand does not exercise
\* run before its first select!: the interval's first tick completes at once,
\* nothing was asked of the device and no node is known.
NewLoop ==
    [pc |-> "select", arm |-> "none", handled |-> {}, inflight |-> {}, device |-> "idle",
     tick_due |-> TRUE, inbox |-> 0, events |-> 0, registry |-> "empty"]

LoopIdle == lp = NewLoop

RestIdle ==
    /\ ctopic = <<>>
    /\ tres = NoTopicResult
    /\ BridgeIdle
    /\ LoopIdle

NoRequest == [node |-> 0, kind |-> "none", action |-> "", val |-> ""]

NoCommand ==
    [op |-> "none", name |-> "", data |-> "", actions |-> <<>>, res |-> "Ok",
     request |-> NoRequest]

\* pc counts the operations of the sequence update(r0), drain, update(r1),
\* drain made on a new Node; -1 once the Node's history is another one
ScenOff == [pc |-> -1, r0 |-> NoValues, r1 |-> NoValues]

ScenStart == [pc |-> 0, r0 |-> NoValues, r1 |-> NoValues]

IdleNode == DucoBoxNode_create_for_node_type("Unknown", 0)

\* the Device and Node part of the state while another part is exercised
EntityIdle ==
    /\ dev = DucoBoxDevice_new
    /\ node = IdleNode
    /\ eop = EntityOp("none", "none", NoValues, <<>>, "ok", 0)
    /\ eprev = [op |-> "none", n |-> 0, dirty |-> 0]
    /\ rst = NoReset
    /\ scen = ScenOff
    /\ cop = NoCommand

-----------------------------------------------------------------------------
(* A single InfoValue and a single RegisterValue under every sequence of   *)
(* the calls their owners make: set, get_and_reset, and the per-field body *)
(* of topics_that_need_updating (get_and_reset only when modified).        *)

\* the values a device reports, bounded
StatusValues ==
    { StatusString("foo"), StatusString("1"), StatusNumber(1),
      StatusNumber(2), StatusString(UNKNOWN) }

\* u16 register contents, bounded: the extremes and one value between
RegisterValues == { OptNone, OptSome(0), OptSome(1), OptSome(65535) }

NoValue == [tag |-> "Nothing", s |-> "", n |-> 0]

NotTaken == [has |-> FALSE, val |-> NoValue]

\* first: no get_and_reset had been made on the object before this operation
FieldOp(obj, op, arg, ret, pre, first) ==
    [obj |-> obj, op |-> op, arg |-> arg, ret |-> ret, pre |-> pre, first |-> first]

FieldInit ==
    /\ \E v \in StatusValues : iv = InfoValue_new(v)
    /\ rv = RegisterValue_new
    /\ fop = FieldOp("both", "new", NoValue, NoValue, [value |-> NoValue, modified |-> FALSE], TRUE)
    /\ fprev = [obj |-> "none", op |-> "none", first |-> FALSE]
    /\ taken = [InfoValue |-> NotTaken, RegisterValue |-> NotTaken]
    /\ EntityIdle
    /\ RestIdle

FieldStep(obj, op, arg, ret, pre) ==
    /\ fop' = FieldOp(obj, op, arg, ret, pre, ~taken[obj].has)
    /\ fprev' = [obj |-> fop.obj, op |-> fop.op, first |-> fop.first]

IvSet ==
    \E v \in StatusValues :
        /\ iv' = InfoValue_set(iv, v)
        /\ FieldStep("InfoValue", "set", v, NoValue, iv)
        /\ UNCHANGED <<rv, taken, entityVars, cmdVars, restVars>>

IvGetAndReset ==
    /\ iv' = InfoValue_get_and_reset(iv)
    /\ FieldStep("InfoValue", "get_and_reset", NoValue, InfoValue_get_and_reset_result(iv), iv)
    /\ taken' = [taken EXCEPT !.InfoValue = [has |-> TRUE, val |-> InfoValue_get_and_reset_result(iv)]]
    /\ UNCHANGED <<rv, entityVars, cmdVars, restVars>>

\* if value.is_modified() { let val = value.get_and_reset(); push(val) }
IvDrain ==
    /\ IF InfoValue_modified(iv)
       THEN /\ iv' = InfoValue_get_and_reset(iv)
            /\ FieldStep("InfoValue", "drain", NoValue, InfoValue_get_and_reset_result(iv), iv)
            /\ taken' = [taken EXCEPT !.InfoValue = [has |-> TRUE, val |-> InfoValue_get_and_reset_result(iv)]]
       ELSE /\ FieldStep("InfoValue", "drain", NoValue, NoValue, iv)
            /\ UNCHANGED <<iv, taken>>
    /\ UNCHANGED <<rv, entityVars, cmdVars, restVars>>

RvSet ==
    \E v \in RegisterValues :
        /\ rv' = RegisterValue_set(rv, v)
        /\ FieldStep("RegisterValue", "set", v, NoValue, rv)
        /\ UNCHANGED <<iv, taken, entityVars, cmdVars, restVars>>

RvGetAndReset ==
    /\ rv' = RegisterValue_get_and_reset(rv)
    /\ FieldStep("RegisterValue", "get_and_reset", NoValue, RegisterValue_get_and_reset_result(rv), rv)
    /\ taken' = [taken EXCEPT !.RegisterValue = [has |-> TRUE, val |-> RegisterValue_get_and_reset_result(rv)]]
    /\ UNCHANGED <<iv, entityVars, cmdVars, restVars>>

\* if val.modified() { let val = val.get_and_reset(); push(val) }
RvDrain ==
    /\ IF RegisterValue_modified(rv)
       THEN /\ rv' = RegisterValue_get_and_reset(rv)
            /\ FieldStep("RegisterValue", "drain", NoValue, RegisterValue_get_and_reset_result(rv), rv)
            /\ taken' = [taken EXCEPT !.RegisterValue = [has |-> TRUE, val |-> RegisterValue_get_and_reset_result(rv)]]
       ELSE /\ FieldStep("RegisterValue", "drain", NoValue, NoValue, rv)
            /\ UNCHANGED <<rv, taken, entityVars, cmdVars, restVars>>
    /\ UNCHANGED <<iv, entityVars, cmdVars, restVars>>

FieldNext ==
    \/ IvSet
    \/ IvGetAndReset
    \/ IvDrain
    \/ RvSet
    \/ RvGetAndReset
    \/ RvDrain

SpecField == FieldInit /\ [][FieldNext]_vars

\* the object the last operation was applied to
FieldOf(obj) == IF obj = "RegisterValue" THEN rv ELSE iv

FieldObjects == {"InfoValue", "RegisterValue"}

(* C1: after set(v) on a field holding value c with dirty flag d, the field *)
(* holds v and its dirty flag is d OR (v # c); with v = c the field is      *)
(* exactly as it was.                                                       *)
C1_SetMarksDirtyIffDifferent ==
    fop.op = "set" =>
        LET f == FieldOf(fop.obj) IN
        /\ f.value = fop.arg
        /\ f.modified = (fop.pre.modified \/ fop.arg # fop.pre.value)
        /\ (fop.arg = fop.pre.value => f = fop.pre)

\* a clean field holding String("1") was set to Number(1) and became dirty
C1_Witness ==
    /\ fop.op = "set"
    /\ fop.obj = "InfoValue"
    /\ fop.pre = [value |-> StatusString("1"), modified |-> FALSE]
    /\ fop.arg = StatusNumber(1)
    /\ iv.modified

(* C2: get_and_reset returns the stored value, leaves the stored value      *)
(* unchanged and leaves the dirty flag false, dirty before or not.          *)
C2_GetAndResetFrame ==
    fop.op = "get_and_reset" =>
        LET f == FieldOf(fop.obj) IN
        /\ fop.ret = fop.pre.value
        /\ f.value = fop.pre.value
        /\ ~f.modified

\* get_and_reset was called on a dirty InfoValue
C2_Witness ==
    /\ fop.op = "get_and_reset"
    /\ fop.obj = "InfoValue"
    /\ fop.pre.modified
    /\ fop.ret = iv.value

(* C3 as stated: after a set call the field is modified exactly when the    *)
(* value passed differs from the value its last get_and_reset returned.     *)
C3_Original ==
    (fop.op = "set" /\ taken[fop.obj].has) =>
        (FieldOf(fop.obj).modified <=> fop.arg # taken[fop.obj].val)

(* C3 amended: after a set call the field is modified if the value passed   *)
(* differs from the value its last get_and_reset returned; when the two are *)
(* equal the call leaves the flag as it was before the call.                *)
C3_ModifiedAfterSet ==
    (fop.op = "set" /\ taken[fop.obj].has) =>
        (FieldOf(fop.obj).modified <=>
            (fop.arg # taken[fop.obj].val \/ fop.pre.modified))

\* a set of the last taken value on a clean field left it clean
C3_Witness ==
    /\ fop.op = "set"
    /\ fop.obj = "InfoValue"
    /\ taken.InfoValue.has
    /\ fop.arg = taken.InfoValue.val
    /\ ~fop.pre.modified
    /\ ~iv.modified

(* C4: a field is dirty from construction until its first get_and_reset,    *)
(* whatever set calls come between; the first drain publishes its value and *)
(* a second drain right after it publishes nothing.                         *)
C4_FreshFieldDirtyUntilFirstTake ==
    /\ \A o \in FieldObjects : ~taken[o].has => FieldOf(o).modified
    /\ (fop.op = "drain" /\ fop.first) =>
          (fop.ret # NoValue /\ fop.ret = FieldOf(fop.obj).value)
    /\ (fop.op = "drain" /\ fprev.op = "drain" /\ fprev.obj = fop.obj) =>
          fop.ret = NoValue

\* the first drain of the InfoValue was followed at once by a second drain
C4_Witness ==
    /\ fop.op = "drain"
    /\ fop.obj = "InfoValue"
    /\ fprev = [obj |-> "InfoValue", op |-> "drain", first |-> TRUE]
    /\ fop.ret = NoValue
    /\ taken.InfoValue.has

-----------------------------------------------------------------------------
(* A Device or a Node under every sequence of update_status, reset and     *)
(* topics_that_need_updating.  A behaviour exercises one of the two: the   *)
(* object named in eop.obj.  A panic ends the behaviour.                   *)

FieldIdle ==
    /\ iv = InfoValue_new(StatusString(""))
    /\ rv = RegisterValue_new
    /\ fop = FieldOp("none", "none", NoValue, NoValue, [value |-> NoValue, modified |-> FALSE], TRUE)
    /\ fprev = [obj |-> "none", op |-> "none", first |-> FALSE]
    /\ taken = [InfoValue |-> NotTaken, RegisterValue |-> NotTaken]

EntityInit ==
    /\ FieldIdle
    /\ RestIdle
    /\ cop = NoCommand
    /\ dev = DucoBoxDevice_new
    /\ eprev = [op |-> "none", n |-> 0, dirty |-> 0]
    /\ rst = NoReset
    /\ \/ /\ node = IdleNode
          /\ eop = EntityOp("Device", "new", NoValues, <<>>, "ok", 0)
          /\ scen = ScenOff
       \/ /\ \E number \in NodeNumbers : node = DucoBoxNode_create_for_node_type("DucoBox", number)
          /\ eop = EntityOp("Node", "new", NoValues, <<>>, "ok", 0)
          /\ scen = ScenStart

KnownKeys(status) == { k \in DOMAIN status : status[k].value # StatusString(UNKNOWN) }

DirtyKeys(status) == { k \in DOMAIN status : status[k].modified }

StatusOf(obj) == IF obj = "Node" THEN node.status ELSE dev

EntityStep(op, vals, out, res) ==
    /\ eop' = EntityOp(eop.obj, op, vals, out, res, Cardinality(DirtyKeys(StatusOf(eop.obj))))
    /\ eprev' = [op |-> eop.op, n |-> Len(eop.out), dirty |-> eop.dirty]
    /\ scen' = IF op = "update" /\ res = "ok" /\ scen.pc = 0
               THEN [pc |-> 1, r0 |-> vals, r1 |-> NoValues]
               ELSE IF op = "drain" /\ scen.pc = 1
               THEN [scen EXCEPT !.pc = 2]
               ELSE IF op = "update" /\ res = "ok" /\ scen.pc = 2
               THEN [scen EXCEPT !.pc = 3, !.r1 = vals]
               ELSE IF op = "drain" /\ scen.pc = 3
               THEN [scen EXCEPT !.pc = 4]
               ELSE ScenOff

Running(obj) == eop.obj = obj /\ eop.res # "panic"

DevUpdateStatus ==
    \E info \in DeviceInfos :
        /\ Running("Device")
        /\ dev' = DucoBoxDevice_update_status(dev, info)
        /\ EntityStep("update", info.general, <<>>, "ok")
        /\ rst' = NoReset
        /\ UNCHANGED <<node, fieldVars, cmdVars, restVars>>

DevReset ==
    /\ Running("Device")
    /\ dev' = DucoBoxDevice_reset(dev)
    /\ EntityStep("reset", NoValues, <<>>, "ok")
    /\ rst' = [known |-> KnownKeys(dev), dirty |-> DirtyKeys(dev)]
    /\ UNCHANGED <<node, fieldVars, cmdVars, restVars>>

DevDrain ==
    \E order \in IterationOrders(DOMAIN dev) :
        LET r == DucoBoxDevice_topics_that_need_updating(dev, order) IN
        /\ Running("Device")
        /\ dev' = r.status
        /\ EntityStep("drain", NoValues, r.topics, "ok")
        /\ rst' = IF eop.op = "reset" THEN rst ELSE NoReset
        /\ UNCHANGED <<node, fieldVars, cmdVars, restVars>>

\* assert_eq!(self.number, node.node) panics on a report of another node
NodeUpdateStatus ==
    \E report \in NodeInfos :
        /\ Running("Node")
        /\ IF node.number = report.node
           THEN /\ node' = DucoBoxNode_update_status(node, report)
                /\ EntityStep("update", ReportValues(report), <<>>, "ok")
           ELSE /\ node' = node
                /\ EntityStep("update", NoValues, <<>>, "panic")
        /\ rst' = NoReset
        /\ UNCHANGED <<dev, fieldVars, cmdVars, restVars>>

NodeReset ==
    /\ Running("Node")
    /\ node' = DucoBoxNode_reset(node)
    /\ EntityStep("reset", NoValues, <<>>, "ok")
    /\ rst' = [known |-> KnownKeys(node.status), dirty |-> DirtyKeys(node.status)]
    /\ UNCHANGED <<dev, fieldVars, cmdVars, restVars>>

NodeDrain ==
    \E order \in IterationOrders(DOMAIN node.status) :
        LET r == DucoBoxNode_topics_that_need_updating(node, order) IN
        /\ Running("Node")
        /\ node' = r.node
        /\ EntityStep("drain", NoValues, r.topics, "ok")
        /\ rst' = IF eop.op = "reset" THEN rst ELSE NoReset
        /\ UNCHANGED <<dev, fieldVars, cmdVars, restVars>>

EntityNext ==
    \/ DevUpdateStatus
    \/ DevReset
    \/ DevDrain
    \/ NodeUpdateStatus
    \/ NodeReset
    \/ NodeDrain

SpecEntity == EntityInit /\ [][EntityNext]_vars

\* the payload the interface gives a value: a number in decimal, a string verbatim
Rendered(v) == IF v.tag = "Number" THEN ToString(v.n) ELSE v.s

\* the topic prefix of the exercised object's status messages
TopicPrefix(obj) ==
    IF obj = "Node" THEN "duco_node_" \o ToString(node.number) \o "/" ELSE ""

(* C5 as stated: two drains of the Device in a row return a non-empty       *)
(* sequence the first time and an empty sequence the second time, whatever  *)
(* the state before.                                                        *)
C5_Original ==
    (eop.obj = "Device" /\ eprev.op = "drain" /\ eop.op = "drain") =>
        (eprev.n > 0 /\ eop.out = <<>>)

(* C5 amended: of two drains of the Device in a row the first returns one   *)
(* message per field that was dirty (none when no field was dirty) and the  *)
(* second returns an empty sequence.                                        *)
C5_SecondDrainEmpty ==
    (eop.obj = "Device" /\ eprev.op = "drain" /\ eop.op = "drain") =>
        (eprev.n = eprev.dirty /\ eop.out = <<>>)

\* the first of two drains in a row returned two messages
C5_Witness ==
    /\ eop.obj = "Device"
    /\ eprev.op = "drain"
    /\ eprev.n = 2
    /\ eop.op = "drain"
    /\ eop.out = <<>>

\* a drain from status map pre to post that returned out under topic prefix
DrainExact(pre, post, prefix, out) ==
    /\ DOMAIN post = DOMAIN pre
    /\ \A k \in DOMAIN pre :
         /\ post[k] = [value |-> pre[k].value, modified |-> FALSE]
         /\ Cardinality({ i \in DOMAIN out : out[i].topic = prefix \o k })
              = IF pre[k].modified THEN 1 ELSE 0
    /\ \A i \in DOMAIN out :
         \E k \in DOMAIN pre :
            out[i] = [topic |-> prefix \o k, payload |-> Rendered(pre[k].value)]

(* C6: one drain of a Device or Node returns exactly one message for each   *)
(* field that was dirty, none for a clean field, each with the field's      *)
(* value as payload, and leaves every field clean with its value unchanged. *)
C6_DrainExactlyDirtyFields ==
    [][eop'.op = "drain" =>
         /\ DrainExact(StatusOf(eop.obj), StatusOf(eop.obj)', TopicPrefix(eop.obj), eop'.out)
         /\ node'.number = node.number
         /\ node'.actions = node.actions]_vars

\* a drain of a Node with three fields returned two messages
C6_Witness ==
    /\ eop.obj = "Node"
    /\ eop.op = "drain"
    /\ Cardinality(DOMAIN node.status) = 3
    /\ Len(eop.out) = 2
    /\ eop.dirty = 2

\* an update_status from status map pre to post with the reported values vals
MergeFrame(pre, post, vals) ==
    /\ DOMAIN post = DOMAIN pre \cup DOMAIN vals
    /\ \A k \in DOMAIN pre \ DOMAIN vals : post[k] = pre[k]
    /\ \A k \in DOMAIN vals \ DOMAIN pre : post[k] = [value |-> vals[k], modified |-> TRUE]
    /\ \A k \in DOMAIN vals \cap DOMAIN pre :
         /\ post[k].value = vals[k]
         /\ post[k].modified = (pre[k].modified \/ vals[k] # pre[k].value)

(* C8: update_status on a Device or Node removes no key: a field whose key  *)
(* the report does not carry keeps its value and dirty flag, a key seen for *)
(* the first time is inserted dirty, an existing key is updated by set.     *)
C8_UpdateKeepsAbsentKeys ==
    [][(eop'.op = "update" /\ eop'.res = "ok") =>
         MergeFrame(StatusOf(eop.obj), StatusOf(eop.obj)', eop'.vals)]_vars

\* a report without a Sensor group left the clean Sensor field as it was
C8_Witness ==
    /\ eop.obj = "Node"
    /\ eop.op = "update"
    /\ eop.res = "ok"
    /\ "General/SubType" \in DOMAIN eop.vals
    /\ "Sensor/IaqCo2" \notin DOMAIN eop.vals
    /\ "Sensor/IaqCo2" \in DOMAIN node.status
    /\ node.status["Sensor/IaqCo2"] = [value |-> StatusNumber(2), modified |-> FALSE]

\* the keys of the messages a drain returned
OutKeys(obj, out) ==
    { k \in DOMAIN StatusOf(obj) : \E i \in DOMAIN out : out[i].topic = TopicPrefix(obj) \o k }

AllUnknown(status) == \A k \in DOMAIN status : status[k].value = StatusString(UNKNOWN)

(* C9 as stated: after reset every field holds the unknown sentinel, and    *)
(* the next drain publishes exactly the fields that held another value      *)
(* before the reset: nothing for a field that was already unknown.          *)
C9_Original ==
    /\ eop.op = "reset" => AllUnknown(StatusOf(eop.obj))
    /\ (eprev.op = "reset" /\ eop.op = "drain") =>
         OutKeys(eop.obj, eop.out) = rst.known

(* C9 amended: after reset every field holds the unknown sentinel, and the  *)
(* next drain publishes, with payload UNKNOWN, every field that held        *)
(* another value before the reset and every field that was dirty before it; *)
(* it publishes nothing for a field that was already unknown and clean.     *)
C9_ResetRepublishesKnownFields ==
    /\ eop.op = "reset" => AllUnknown(StatusOf(eop.obj))
    /\ (eprev.op = "reset" /\ eop.op = "drain") =>
         /\ OutKeys(eop.obj, eop.out) = rst.known \cup rst.dirty
         /\ Len(eop.out) = Cardinality(rst.known \cup rst.dirty)
         /\ \A i \in DOMAIN eop.out : eop.out[i].payload = "UNKNOWN"
         /\ AllUnknown(StatusOf(eop.obj))

\* the drain after a reset published a known field and not the unknown, clean one
C9_Witness ==
    /\ eop.obj = "Node"
    /\ eprev.op = "reset"
    /\ eop.op = "drain"
    /\ rst.known # {}
    /\ \E k \in DOMAIN node.status : k \notin rst.known \cup rst.dirty
    /\ Len(eop.out) = Cardinality(rst.known)

\* the messages of the fields of vals whose keys are in keys, for the Node
MessagesFor(vals, keys) ==
    { [topic |-> "duco_node_" \o ToString(node.number) \o "/" \o k,
       payload |-> Rendered(vals[k])] : k \in keys }

\* out carries exactly the messages of msgs, each once
Carries(out, msgs) ==
    /\ { out[i] : i \in DOMAIN out } = msgs
    /\ Len(out) = Cardinality(msgs)

\* the keys of r1 whose value is not the value r0 gives them
Changed(r0, r1) == { k \in DOMAIN r1 : k \notin DOMAIN r0 \/ r1[k] # r0[k] }

(* C7: merging a report r0 into a new Node and draining returns one message *)
(* per field of r0, topic duco_node_<n>/<Group>/<Field>, payload the value  *)
(* rendered; merging a report r1 next and draining returns exactly the      *)
(* messages of the fields whose value in r1 differs from r0: none when r1   *)
(* is r0, k when r1 differs in k values.                                    *)
C7_RoundTrip ==
    /\ scen.pc = 2 => Carries(eop.out, MessagesFor(scen.r0, DOMAIN scen.r0))
    /\ scen.pc = 4 => Carries(eop.out, MessagesFor(scen.r1, Changed(scen.r0, scen.r1)))

\* Type = "BOX", SubType = 1 was followed by the report with SubType = 2
C7_Witness ==
    /\ scen.pc = 4
    /\ node.number = 2
    /\ scen.r0 = [k \in {"General/Type", "General/SubType"} |->
                    IF k = "General/Type" THEN StatusString("BOX") ELSE StatusNumber(1)]
    /\ scen.r1 = [k \in {"General/Type", "General/SubType"} |->
                    IF k = "General/Type" THEN StatusString("BOX") ELSE StatusNumber(2)]
    /\ eop.out = << [topic |-> "duco_node_2/General/SubType", payload |-> "2"] >>

-----------------------------------------------------------------------------
(* Node actions and commands (ducoboxnode.rs, ducoapi.rs).                  *)

\* DucoNodeAction::SetBoolean(name)
SetBoolean(name) == [kind |-> "SetBoolean", name |-> name, values |-> <<>>]

\* DucoNodeAction::SetEnum(name, values)
SetEnum(name, values) == [kind |-> "SetEnum", name |-> name, values |-> values]

\* NodeActionDescription { Action, ValType, Enum: Option<Vec<String>> }
NodeActionDescription(action, val_type, some, values) ==
    [action |-> action, val_type |-> val_type, values |-> [some |-> some, list |-> values]]

\* TryFrom<NodeActionDescription> for DucoNodeAction
DucoNodeAction_try_from(action) ==
    IF action.val_type = "Enum"
    THEN IF action.values.some
         THEN [ok |-> TRUE, action |-> SetEnum(action.action, action.values.list)]
         ELSE [ok |-> FALSE, action |-> SetEnum(action.action, <<>>)]
    ELSE IF action.val_type = "Boolean"
    THEN [ok |-> TRUE, action |-> SetBoolean(action.action)]
    ELSE [ok |-> FALSE, action |-> SetBoolean(action.action)]

DucoBoxNode_set_actions_keeps_converted(n, actions) ==
    LET converted == [i \in DOMAIN actions |-> DucoNodeAction_try_from(actions[i])]
        good == { i \in DOMAIN converted : \A j \in 1..i : converted[j].ok } IN
    [res |-> IF good = DOMAIN converted THEN "Ok" ELSE "Err",
     node |-> [n EXCEPT !.actions = [i \in good |-> converted[i].action]]]

\* collect::<Result<Vec<_>>>()? assigns self.actions only when every
\* description converts
DucoBoxNode_set_actions(n, actions) ==
    LET converted == [i \in DOMAIN actions |-> DucoNodeAction_try_from(actions[i])] IN
    IF \A i \in DOMAIN converted : converted[i].ok
    THEN [res |-> "Ok",
          node |-> [n EXCEPT !.actions = [i \in DOMAIN converted |-> converted[i].action]]]
    ELSE [res |-> "Err", node |-> n]

\* the index of the first action of the given kinds with the name, 0 if none
FirstAction(actions, name, kinds) ==
    LET I == { i \in DOMAIN actions : actions[i].kind \in kinds /\ actions[i].name = name } IN
    IF I = {} THEN 0 ELSE CHOOSE i \in I : \A j \in I : i <= j

Contains(values, val) == \E i \in DOMAIN values : values[i] = val

DucoBoxNode_verify_enum_action_accepts_all(n, action) == "Ok"

DucoBoxNode_verify_enum_action_is_valid(n, action) ==
    LET i == FirstAction(n.actions, action.action, {"SetEnum"}) IN
    IF i = 0 THEN "InvalidAction"
    ELSE IF ~Contains(n.actions[i].values, action.val) THEN "InvalidValue"
    ELSE "Ok"

DucoBoxNode_verify_bool_action_is_valid(n, action) ==
    IF FirstAction(n.actions, action.action, {"SetBoolean"}) = 0 THEN "InvalidAction" ELSE "Ok"

\* the POST to /action/nodes/<node>; sent is whether send() returned Ok.  Val
\* is the JSON text serde writes for the value.
ducoapi_perform_action(number, action, sent) ==
    [res |-> IF sent THEN "Ok" ELSE "TransportError",
     request |-> [node |-> number, kind |-> action.kind, action |-> action.action, val |-> action.val]]

\* NodeEnumAction { Action, Val: String }
NodeEnumAction(action, val) == [kind |-> "enum", action |-> action, val |-> val]

\* NodeBoolAction { Action, Val: bool }
NodeBoolAction(action, val) ==
    [kind |-> "bool", action |-> action, val |-> IF val THEN "true" ELSE "false"]

Rejected(res) == [res |-> res, request |-> NoRequest]

DucoBoxNode_process_enum_command_unverified(n, action, sent) ==
    ducoapi_perform_action(n.number, action, sent)

DucoBoxNode_process_enum_command(n, action, sent) ==
    LET v == DucoBoxNode_verify_enum_action_is_valid(n, action) IN
    IF v # "Ok" THEN Rejected(v) ELSE ducoapi_perform_action(n.number, action, sent)

DucoBoxNode_process_bool_command(n, action, sent) ==
    LET v == DucoBoxNode_verify_bool_action_is_valid(n, action) IN
    IF v # "Ok" THEN Rejected(v) ELSE ducoapi_perform_action(n.number, action, sent)

DucoBoxNode_process_command_lenient_bool(n, action_name, data, sent) ==
    LET i == FirstAction(n.actions, action_name, {"SetBoolean", "SetEnum"}) IN
    IF i = 0 THEN Rejected("InvalidAction")
    ELSE IF n.actions[i].kind = "SetEnum"
    THEN DucoBoxNode_process_enum_command(n, NodeEnumAction(action_name, data), sent)
    ELSE DucoBoxNode_process_bool_command(n, NodeBoolAction(action_name, data = "1"), sent)

DucoBoxNode_process_command(n, action_name, data, sent) ==
    LET i == FirstAction(n.actions, action_name, {"SetBoolean", "SetEnum"}) IN
    IF i = 0 THEN Rejected("InvalidAction")
    ELSE IF n.actions[i].kind = "SetEnum"
    THEN DucoBoxNode_process_enum_command(n, NodeEnumAction(action_name, data), sent)
    ELSE IF data # "1" /\ data # "0" THEN Rejected("InvalidValue")
    ELSE DucoBoxNode_process_bool_command(n, NodeBoolAction(action_name, data = "1"), sent)

\* the handler's body is commented out: every message is answered with
\* Error::Runtime("Unexpected command path: ..") and nothing else is done
DucoMqttBridge_handle_node_command(msg) == Rejected("Err")

MaxActions == 2

ActionDescriptions ==
    { NodeActionDescription("SetIdentify", "Boolean", FALSE, <<>>),
      NodeActionDescription("SetVentilationState", "Enum", TRUE, <<"AUTO", "MAN1">>),
      NodeActionDescription("SetIdentify", "Enum", TRUE, <<"1", "2">>),
      NodeActionDescription("SetVentilationState", "Enum", FALSE, <<>>),
      NodeActionDescription("SetLevel", "Integer", FALSE, <<>>) }

ActionLists == UNION { [1..len -> ActionDescriptions] : len \in 0..MaxActions }

ActionNames == {"SetIdentify", "SetVentilationState", "SetLevel"}

Payloads == {"0", "1", "2", "AUTO", "MAN4", "true", ""}

CommandMessages ==
    { MqttData(topic, payload) :
        topic \in {"ducobox/cmnd/duco_node_2/SetVentilationState", "ducobox/cmnd/bogus"},
        payload \in Payloads }

CommandInit ==
    /\ FieldIdle
    /\ RestIdle
    /\ dev = DucoBoxDevice_new
    /\ \E number \in NodeNumbers : node = DucoBoxNode_create_for_node_type("DucoBox", number)
    /\ eop = EntityOp("none", "none", NoValues, <<>>, "ok", 0)
    /\ eprev = [op |-> "none", n |-> 0, dirty |-> 0]
    /\ rst = NoReset
    /\ scen = ScenOff
    /\ cop = NoCommand

CmdSetActions ==
    \E actions \in ActionLists :
        LET r == DucoBoxNode_set_actions(node, actions) IN
        /\ node' = r.node
        /\ cop' = [op |-> "set_actions", name |-> "", data |-> "", actions |-> actions, res |-> r.res,
                   request |-> NoRequest]
        /\ UNCHANGED <<fieldVars, dev, eop, eprev, rst, scen, restVars>>

CmdProcessCommand ==
    \E action_name \in ActionNames, data \in Payloads, sent \in BOOLEAN :
        LET r == DucoBoxNode_process_command(node, action_name, data, sent) IN
        /\ cop' = [op |-> "process_command", name |-> action_name, data |-> data, actions |-> <<>>,
                   res |-> r.res, request |-> r.request]
        /\ UNCHANGED <<fieldVars, entityVars, restVars>>

CmdHandleNodeCommand ==
    \E msg \in CommandMessages :
        LET r == DucoMqttBridge_handle_node_command(msg) IN
        /\ cop' = [op |-> "handle_node_command", name |-> msg.topic, data |-> msg.payload, actions |-> <<>>,
                   res |-> r.res, request |-> r.request]
        /\ UNCHANGED <<fieldVars, entityVars, restVars>>

CommandNext ==
    \/ CmdSetActions
    \/ CmdProcessCommand
    \/ CmdHandleNodeCommand

SpecCommand == CommandInit /\ [][CommandNext]_vars

\* the node declares a command of the request's name and kind that permits
\* the request's value
Declared(actions, request) ==
    \E i \in DOMAIN actions :
        /\ actions[i].name = request.action
        /\ \/ /\ request.kind = "bool"
              /\ actions[i].kind = "SetBoolean"
              /\ request.val \in {"true", "false"}
           \/ /\ request.kind = "enum"
              /\ actions[i].kind = "SetEnum"
              /\ \E j \in DOMAIN actions[i].values : actions[i].values[j] = request.val

DeclaredAs(actions, i, name) ==
    /\ actions[i].name = name
    /\ \A j \in 1..(i - 1) : actions[j].name # name

Dispatched(kind, val) ==
    /\ cop.res \in {"Ok", "TransportError"}
    /\ cop.request = [node |-> node.number, kind |-> kind, action |-> cop.name, val |-> val]

NotDispatched(res) == cop.res = res /\ cop.request = NoRequest

(* C11: when the command a node declares under a name is SetEnum(name,     *)
(* values), process_command(name, p) dispatches the enum action with value  *)
(* p if p is one of values and fails as an invalid value, dispatching       *)
(* nothing, if it is not; a name the node declares no command under fails   *)
(* as an invalid (unknown) action.                                          *)
C11_EnumCommandValidated ==
    cop.op = "process_command" =>
        /\ \A i \in DOMAIN node.actions :
               DeclaredAs(node.actions, i, cop.name) /\ node.actions[i].kind = "SetEnum" =>
                   IF \E k \in DOMAIN node.actions[i].values : node.actions[i].values[k] = cop.data
                   THEN Dispatched("enum", cop.data)
                   ELSE NotDispatched("InvalidValue")
        /\ (\A i \in DOMAIN node.actions : node.actions[i].name # cop.name) =>
               NotDispatched("InvalidAction")

\* a declared value of SetVentilationState was dispatched
C11_Witness ==
    /\ cop.op = "process_command"
    /\ node.actions = << SetEnum("SetVentilationState", <<"AUTO", "MAN1">>) >>
    /\ cop.name = "SetVentilationState"
    /\ cop.data = "AUTO"
    /\ cop.res = "Ok"
    /\ cop.request = [node |-> node.number, kind |-> "enum",
                      action |-> "SetVentilationState", val |-> "AUTO"]

(* C12: when the command a node declares under a name is SetBoolean(name), *)
(* process_command(name, p) dispatches the boolean action, true for "1"     *)
(* and false for "0", exactly when p is "1" or "0"; every other payload     *)
(* fails as an invalid value and dispatches nothing.                        *)
C12_BooleanCommandValidated ==
    cop.op = "process_command" =>
        \A i \in DOMAIN node.actions :
            DeclaredAs(node.actions, i, cop.name) /\ node.actions[i].kind = "SetBoolean" =>
                /\ cop.data = "1" => Dispatched("bool", "true")
                /\ cop.data = "0" => Dispatched("bool", "false")
                /\ cop.data \notin {"0", "1"} => NotDispatched("InvalidValue")

\* the payload "true" was rejected by a node that declares SetIdentify
C12_Witness ==
    /\ cop.op = "process_command"
    /\ node.actions = << SetBoolean("SetIdentify") >>
    /\ cop.name = "SetIdentify"
    /\ cop.data = "true"
    /\ cop.res = "InvalidValue"
    /\ cop.request = NoRequest

-----------------------------------------------------------------------------
(* Command topics (bridge.rs).  A string is a sequence of characters; a    *)
(* run of letters that holds no separator and no digit to be parsed is     *)
(* written as one element.                                                  *)

U16Max == 65535

IsDigit(c) == \E d \in 0..9 : Digit[d + 1] = c

DigitValue(c) == CHOOSE d \in 0..9 : Digit[d + 1] = c

RECURSIVE SplitFrom(_, _, _, _)
SplitFrom(s, sep, i, piece) ==
    IF i > Len(s) THEN <<piece>>
    ELSE IF s[i] = sep THEN <<piece>> \o SplitFrom(s, sep, i + 1, <<>>)
    ELSE SplitFrom(s, sep, i + 1, Append(piece, s[i]))

\* str::split(sep).collect(): the pieces between the separators, empty
\* pieces kept
str_split(s, sep) == SplitFrom(s, sep, 1, <<>>)

RECURSIVE ParseDigits(_, _, _)
ParseDigits(s, i, acc) ==
    IF i > Len(s) THEN [ok |-> TRUE, n |-> acc]
    ELSE IF ~IsDigit(s[i]) THEN [ok |-> FALSE, n |-> 0]
    ELSE IF acc * 10 + DigitValue(s[i]) > U16Max THEN [ok |-> FALSE, n |-> 0]
    ELSE ParseDigits(s, i + 1, acc * 10 + DigitValue(s[i]))

\* str::parse::<u16>(): one optional "+", then one or more digits, no
\* overflow
u16_from_str(s) ==
    LET digits == IF Len(s) > 0 /\ s[1] = "+" THEN Tail(s) ELSE s IN
    IF Len(digits) = 0 THEN [ok |-> FALSE, n |-> 0] ELSE ParseDigits(digits, 1, 0)

\* #[strum(serialize_all = "snake_case")] enum HoldingRegister
HoldingRegisterNames ==
    { [variant |-> "VentilationPosition", text |-> <<"ventilation", "_", "position">>],
      [variant |-> "Identification", text |-> <<"identification">>],
      [variant |-> "SupplyTemperatureTargetZone1",
       text |-> <<"supply", "_", "temperature", "_", "target", "_", "zone1">>],
      [variant |-> "SupplyTemperatureTargetZone2",
       text |-> <<"supply", "_", "temperature", "_", "target", "_", "zone2">>] }

HoldingRegister_from_str(s) ==
    IF \E r \in HoldingRegisterNames : r.text = s
    THEN [ok |-> TRUE, variant |-> (CHOOSE r \in HoldingRegisterNames : r.text = s).variant]
    ELSE [ok |-> FALSE, variant |-> ""]

TopicOk(op, number, register) == [op |-> op, ok |-> TRUE, node |-> number, register |-> register]

TopicErr(op) == [op |-> op, ok |-> FALSE, node |-> 0, register |-> ""]

DucoMqttBridge_node_number_for_node_name(name) ==
    LET parts == str_split(name, "_") IN
    IF Len(parts) = 2 /\ parts[1] = <<"node">>
    THEN LET number == u16_from_str(parts[2]) IN
         IF number.ok THEN TopicOk("node_number_for_node_name", number.n, "")
         ELSE TopicErr("node_number_for_node_name")
    ELSE TopicErr("node_number_for_node_name")

DucoMqttBridge_node_number_cmd_from_topic_any_middle(path) ==
    LET topics == str_split(path, "/") IN
    IF Len(topics) = 3
    THEN LET number == DucoMqttBridge_node_number_for_node_name(topics[1])
             holding_register == HoldingRegister_from_str(topics[3]) IN
         IF number.ok /\ holding_register.ok
         THEN TopicOk("node_number_cmd_from_topic", number.node, holding_register.variant)
         ELSE TopicErr("node_number_cmd_from_topic")
    ELSE TopicErr("node_number_cmd_from_topic")

DucoMqttBridge_node_number_cmd_from_topic(path) ==
    LET topics == str_split(path, "/") IN
    IF Len(topics) = 3 /\ topics[2] = <<"cmnd">>
    THEN LET number == DucoMqttBridge_node_number_for_node_name(topics[1]) IN
         IF ~number.ok THEN TopicErr("node_number_cmd_from_topic")
         ELSE LET holding_register == HoldingRegister_from_str(topics[3]) IN
              IF ~holding_register.ok THEN TopicErr("node_number_cmd_from_topic")
              ELSE TopicOk("node_number_cmd_from_topic", number.node, holding_register.variant)
    ELSE TopicErr("node_number_cmd_from_topic")

NodeSelectors ==
    { <<"node", "_", "1">>, <<"node", "_", "2">>, <<"node", "_", "1", "2">>,
      <<"node", "_", "6", "5", "5", "3", "5">>, <<"node", "_", "6", "5", "5", "3", "6">>,
      <<"node", "_", "0", "0", "7">>, <<"node", "_", "+", "5">>, <<"node", "_", "-", "1">>,
      <<"node", "_">>, <<"node">>, <<"node", "_", "x">>, <<"node", "_", "1", "_", "2">>,
      <<"duco", "_", "node", "_", "1", "2">>, <<"duco", "_", "node", "_">>, <<"Node", "_", "1">> }

CommandSegments ==
    { r.text : r \in HoldingRegisterNames }
        \cup { <<"SetIdentify">>, <<"X">>, <<"Identification">>, <<"ventilation">>, <<>> }

MiddleSegments == { <<"cmnd">>, <<"stat">> }

Topics ==
    NodeSelectors
        \cup { s \o <<"/">> \o c : s \in NodeSelectors, c \in CommandSegments }
        \cup { s \o <<"/">> \o m \o <<"/">> \o c :
                 s \in NodeSelectors, m \in MiddleSegments, c \in CommandSegments }
        \cup { s \o <<"/">> \o m \o <<"/">> \o c \o <<"/">> \o <<"X">> :
                 s \in NodeSelectors, m \in MiddleSegments, c \in CommandSegments }

TopicInit ==
    /\ FieldIdle
    /\ EntityIdle
    /\ ctopic \in Topics
    /\ tres = NoTopicResult
    /\ BridgeIdle
    /\ LoopIdle

TopicParseCommand ==
    /\ tres' = DucoMqttBridge_node_number_cmd_from_topic(ctopic)
    /\ UNCHANGED <<ctopic, fieldVars, entityVars, cmdVars, bridgeVars, loopVars>>

TopicParseNodeName ==
    /\ tres' = DucoMqttBridge_node_number_for_node_name(ctopic)
    /\ UNCHANGED <<ctopic, fieldVars, entityVars, cmdVars, bridgeVars, loopVars>>

TopicNext ==
    \/ TopicParseCommand
    \/ TopicParseNodeName

SpecTopic == TopicInit /\ [][TopicNext]_vars

\* decimal texts and the u16 each denotes; +5 is a text u16's parser accepts
Decimals ==
    { [text |-> <<"1">>, n |-> 1], [text |-> <<"2">>, n |-> 2], [text |-> <<"1", "2">>, n |-> 12],
      [text |-> <<"6", "5", "5", "3", "5">>, n |-> 65535], [text |-> <<"0", "0", "7">>, n |-> 7],
      [text |-> <<"+", "5">>, n |-> 5] }

(* C14: node_number_cmd_from_topic returns (n, register) for every topic    *)
(* node_<n>/cmnd/<register_name> with n a u16 in decimal and register_name  *)
(* the snake_case name of a holding register, node_number_for_node_name     *)
(* returns n for node_<n>, and both return an error for every other text.   *)
C14_NodeTopicParsed ==
    /\ tres.op = "node_number_cmd_from_topic" =>
        LET forms == { f \in Decimals \X HoldingRegisterNames :
                         ctopic = <<"node", "_">> \o f[1].text \o <<"/", "cmnd", "/">> \o f[2].text } IN
        IF forms = {} THEN ~tres.ok
        ELSE \A f \in forms : tres.ok /\ tres.node = f[1].n /\ tres.register = f[2].variant
    /\ tres.op = "node_number_for_node_name" =>
        LET forms == { d \in Decimals : ctopic = <<"node", "_">> \o d.text } IN
        IF forms = {} THEN ~tres.ok
        ELSE \A d \in forms : tres.ok /\ tres.node = d.n

\* node_2/cmnd/supply_temperature_target_zone1 was parsed
C14_Witness ==
    /\ ctopic = <<"node", "_", "2", "/", "cmnd", "/",
                  "supply", "_", "temperature", "_", "target", "_", "zone1">>
    /\ tres = [op |-> "node_number_cmd_from_topic", ok |-> TRUE, node |-> 2,
               register |-> "SupplyTemperatureTargetZone1"]

(* C13: a command topic is accepted only in the form                        *)
(* duco_node_<digits>/cmnd/<command>: duco_node_12/cmnd/SetIdentify parses  *)
(* to node 12 and command SetIdentify, and a selector without digits, a     *)
(* selector with another prefix such as node_12, and any other number of    *)
(* segments fail.                                                           *)
C13_Original ==
    tres.op = "node_number_cmd_from_topic" =>
        LET forms == { f \in { d \in Decimals : d.text[1] # "+" } \X (CommandSegments \ {<<>>}) :
                         ctopic = <<"duco", "_", "node", "_">> \o f[1].text
                                      \o <<"/", "cmnd", "/">> \o f[2] } IN
        IF forms = {} THEN ~tres.ok
        ELSE tres.ok /\ \A f \in forms : tres.node = f[1].n

-----------------------------------------------------------------------------
(* The bridge (bridge.rs, mqtt.rs): the node registry, the availability    *)
(* flag and the event loop.                                                 *)

\* #[derive(EnumString)] enum NodeType
NodeTypeNames ==
    { "Unknown", "RemoteControlRFBAT", "RemoteControlRFWired", "HumidityRoomSensor",
      "CO2RoomSensor", "SensorlessControlValve", "HumidityControlValve", "CO2ControlValve",
      "DucoBox", "SwitchSensor", "ControlUnit", "CO2RHControlValve",
      "RemoteControlSunControlRFWired", "RemoteControlNightventRFWired",
      "ExternalMultiZoneValve", "HumidityBoxSensor", "CO2BoxSensors", "DucoWeatherStation" }

NodeType_from_str(s) == [ok |-> s \in NodeTypeNames, node_type |-> s]

NoNode == [ok |-> FALSE, node |-> IdleNode]

\* TryFrom<ducoapi::NodeInfo> for DucoBoxNode
DucoBoxNode_try_from(node_info) ==
    IF "Type" \notin DOMAIN node_info.general THEN NoNode
    ELSE LET type == node_info.general["Type"] IN
         IF type.tag # "String" THEN NoNode
         ELSE IF ~NodeType_from_str(type.s).ok THEN NoNode
         ELSE [ok |-> TRUE,
               node |-> DucoBoxNode_update_status(
                            DucoBoxNode_create_for_node_type(type.s, node_info.node), node_info)]

\* the closure discover_nodes maps over the zipped lists
WithActions(set) == IF set.res # "Ok" THEN NoNode ELSE [ok |-> TRUE, node |-> set.node]

SetActionsOf(made, actions) ==
    IF ~made.ok THEN NoNode ELSE WithActions(DucoBoxNode_set_actions(made.node, actions.actions))

DiscoverNode(node_info, actions) ==
    IF node_info.node # actions.node THEN NoNode
    ELSE SetActionsOf(DucoBoxNode_try_from(node_info), actions)

\* collect::<Result<Vec<_>>>()
Collected(made) ==
    IF \A i \in DOMAIN made : made[i].ok
    THEN [ok |-> TRUE, nodes |-> [i \in DOMAIN made |-> made[i].node]]
    ELSE [ok |-> FALSE, nodes |-> <<>>]

\* zip without the two comparisons
DucoMqttBridge_discover_nodes_unchecked(nodes, node_actions) ==
    IF ~nodes.ok \/ ~node_actions.ok THEN [ok |-> FALSE, nodes |-> <<>>]
    ELSE Collected([i \in DOMAIN nodes.list \cap DOMAIN node_actions.list |->
                        SetActionsOf(DucoBoxNode_try_from(nodes.list[i]), node_actions.list[i])])

\* nodes, node_actions: what get_nodes and get_node_actions returned,
\* [ok, list]
DucoMqttBridge_discover_nodes(nodes, node_actions) ==
    IF ~nodes.ok \/ ~node_actions.ok THEN [ok |-> FALSE, nodes |-> <<>>]
    ELSE IF Len(nodes.list) # Len(node_actions.list) THEN [ok |-> FALSE, nodes |-> <<>>]
    ELSE Collected([i \in DOMAIN nodes.list |->
                        DiscoverNode(nodes.list[i], node_actions.list[i])])

\* the first node of the registry, whatever its number
DucoMqttBridge_node_with_number_first(nodes, nr) == IF nodes = <<>> THEN 0 ELSE 1

\* the index of the first node with the number, 0 if none
DucoMqttBridge_node_with_number(nodes, nr) ==
    LET I == { i \in DOMAIN nodes : nodes[i].number = nr } IN
    IF I = {} THEN 0 ELSE CHOOSE i \in I : \A j \in I : i <= j

RECURSIVE MergeLoop(_, _, _)

\* self.nodes.push(DucoBoxNode::try_from(new_node)?)
Pushed(nodes, made, new_nodes, k) ==
    IF ~made.ok THEN [res |-> "Err", nodes |-> nodes]
    ELSE MergeLoop(Append(nodes, made.node), new_nodes, k + 1)

MergeLoop(nodes, new_nodes, k) ==
    IF k > Len(new_nodes) THEN [res |-> "Ok", nodes |-> nodes]
    ELSE LET new_node == new_nodes[k]
             i == DucoMqttBridge_node_with_number(nodes, new_node.node) IN
         IF i # 0
         THEN IF nodes[i].number # new_node.node
              THEN [res |-> "panic", nodes |-> nodes]
              ELSE MergeLoop([nodes EXCEPT ![i] = DucoBoxNode_update_status(@, new_node)],
                             new_nodes, k + 1)
         ELSE Pushed(nodes, DucoBoxNode_try_from(new_node), new_nodes, k)

DucoMqttBridge_merge_nodes_replaces(nodes, new_nodes) == MergeLoop(<<>>, new_nodes, 1)

DucoMqttBridge_merge_nodes(nodes, new_nodes) == MergeLoop(nodes, new_nodes, 1)

BASE_TOPIC == "duco"

\* format!("{}/", cfg.mqtt_config.base_topic)
MqttBaseTopic == BASE_TOPIC \o "/"

\* format!("{}/state", base_topic)
state_topic == BASE_TOPIC \o "/state"

ONLINE_PAYLOAD == "online"

OFFLINE_PAYLOAD == "offline"

\* one call of client.publish: ok is whether it returned Ok
Published(topic, payload, ok) == [topic |-> topic, payload |-> payload, ok |-> ok]

\* publishes the messages from the i-th on; the call that brings the number
\* of calls of this iteration to fail_at returns an error and ends the loop
RECURSIVE PublishLoop(_, _, _, _)
PublishLoop(topics, i, bus, fail_at) ==
    IF i > Len(topics) THEN [res |-> "Ok", bus |-> bus]
    ELSE LET ok == Len(bus) + 1 # fail_at
             sent == Append(bus, Published(MqttBaseTopic \o topics[i].topic, topics[i].payload, ok)) IN
         IF ok THEN PublishLoop(topics, i + 1, sent, fail_at)
         ELSE [res |-> "Err", bus |-> sent]

\* for node in self.nodes.iter_mut(): drain the node, publish its messages
RECURSIVE PublishNodesLoop(_, _, _, _, _)

\* self.mqtt.publish(mqtt_data).await? for the messages of one node
AfterPublish(kept, sent, orders, i, fail_at) ==
    IF sent.res # "Ok" THEN [res |-> "Err", nodes |-> kept, bus |-> sent.bus]
    ELSE PublishNodesLoop(kept, orders, i + 1, sent.bus, fail_at)

PublishDrained(nodes, drained, orders, i, bus, fail_at) ==
    AfterPublish([nodes EXCEPT ![i] = drained.node],
                 PublishLoop(drained.topics, 1, bus, fail_at), orders, i, fail_at)

PublishNodesLoop(nodes, orders, i, bus, fail_at) ==
    IF i > Len(nodes) THEN [res |-> "Ok", nodes |-> nodes, bus |-> bus]
    ELSE PublishDrained(nodes, DucoBoxNode_topics_that_need_updating(nodes[i], orders[i]),
                        orders, i, bus, fail_at)

DucoMqttBridge_publish_nodes(nodes, orders, bus, fail_at) ==
    PublishNodesLoop(nodes, orders, 1, bus, fail_at)

DucoMqttBridge_reset_nodes_keeps_values(nodes) == nodes

DucoMqttBridge_reset_nodes(nodes) == [i \in DOMAIN nodes |-> DucoBoxNode_reset(nodes[i])]

\* the iteration orders the drains of a poll may take, one per node
OrderChoices(nodes) ==
    { o \in [DOMAIN nodes -> UNION { IterationOrders(DOMAIN nodes[i].status) : i \in DOMAIN nodes }] :
        \A i \in DOMAIN nodes : o[i] \in IterationOrders(DOMAIN nodes[i].status) }

MqttConnection_publish_online_always(online, bus, fail_at) ==
    LET ok == Len(bus) + 1 # fail_at IN
    [online |-> IF ok THEN TRUE ELSE online,
     bus |-> Append(bus, Published(state_topic, ONLINE_PAYLOAD, ok))]

MqttConnection_publish_online(online, bus, fail_at) ==
    IF ~online
    THEN LET ok == Len(bus) + 1 # fail_at IN
         [online |-> IF ok THEN TRUE ELSE online,
          bus |-> Append(bus, Published(state_topic, ONLINE_PAYLOAD, ok))]
    ELSE [online |-> online, bus |-> bus]

MqttConnection_publish_offline(online, bus, fail_at) ==
    IF online
    THEN LET ok == Len(bus) + 1 # fail_at IN
         [online |-> IF ok THEN FALSE ELSE online,
          bus |-> Append(bus, Published(state_topic, OFFLINE_PAYLOAD, ok))]
    ELSE [online |-> online, bus |-> bus]

\* what poll_ducobox holds before publish_nodes: the registry after discovery
\* or merge, and whether that step succeeded
Discovered(nodes, d) ==
    [res |-> IF d.ok THEN "Ok" ELSE "Err", nodes |-> IF d.ok THEN d.nodes ELSE nodes,
     discovery |-> TRUE]

Merged(m) == [res |-> m.res, nodes |-> m.nodes, discovery |-> FALSE]

\* discovery again whenever no node holds a known value
PollFound_rediscovers(nodes, fetched) ==
    IF nodes = <<>> \/ \A i \in DOMAIN nodes : KnownKeys(nodes[i].status) = {}
    THEN Discovered(nodes, DucoMqttBridge_discover_nodes(fetched.nodes, fetched.node_actions))
    ELSE IF ~fetched.nodes.ok THEN Merged([res |-> "Err", nodes |-> nodes])
    ELSE Merged(DucoMqttBridge_merge_nodes(nodes, fetched.nodes.list))

PollFound(nodes, fetched) ==
    IF nodes = <<>>
    THEN Discovered(nodes, DucoMqttBridge_discover_nodes(fetched.nodes, fetched.node_actions))
    ELSE IF ~fetched.nodes.ok THEN Merged([res |-> "Err", nodes |-> nodes])
    ELSE Merged(DucoMqttBridge_merge_nodes(nodes, fetched.nodes.list))

\* the body that builds the descriptions is commented out: the function
\* returns Ok(Vec::new())
DucoMqttBridge_create_home_assistant_descriptions_for_node(n, base_topic) ==
    [ok |-> TRUE, topics |-> <<>>]

\* self.mqtt.publish(md).await? for md in mqtt_data, from the i-th on
RECURSIVE PublishDescriptions(_, _, _, _)
PublishDescriptions(mqtt_data, i, bus, fail_at) ==
    IF i > Len(mqtt_data) THEN [res |-> "Ok", bus |-> bus]
    ELSE IF Len(bus) + 1 = fail_at
    THEN [res |-> "Err",
          bus |-> Append(bus, Published(mqtt_data[i].topic, mqtt_data[i].payload, FALSE))]
    ELSE PublishDescriptions(mqtt_data, i + 1,
             Append(bus, Published(mqtt_data[i].topic, mqtt_data[i].payload, TRUE)), fail_at)

RECURSIVE HassLoop(_, _, _, _)

DescriptionsSent(nodes, i, sent, fail_at) ==
    IF sent.res # "Ok" THEN sent ELSE HassLoop(nodes, i + 1, sent.bus, fail_at)

DescriptionsOf(nodes, i, made, bus, fail_at) ==
    IF ~made.ok THEN HassLoop(nodes, i + 1, bus, fail_at)
    ELSE DescriptionsSent(nodes, i, PublishDescriptions(made.topics, 1, bus, fail_at), fail_at)

\* for node in self.nodes.iter(), after discovery with hass_discovery set
HassLoop(nodes, i, bus, fail_at) ==
    IF i > Len(nodes) THEN [res |-> "Ok", bus |-> bus]
    ELSE DescriptionsOf(nodes, i,
             DucoMqttBridge_create_home_assistant_descriptions_for_node(nodes[i], MqttBaseTopic),
             bus, fail_at)

\* the descriptions are published only in the discovery branch
HassPublished(found, hass_discovery, fail_at) ==
    IF found.discovery /\ hass_discovery THEN HassLoop(found.nodes, 1, <<>>, fail_at)
    ELSE [res |-> "Ok", bus |-> <<>>]

PublishAfterHass(found, described, orders, fail_at) ==
    IF described.res # "Ok"
    THEN [res |-> described.res, nodes |-> found.nodes, bus |-> described.bus]
    ELSE DucoMqttBridge_publish_nodes(found.nodes, orders, described.bus, fail_at)

PublishFound(found, hass_discovery, orders, fail_at) ==
    IF found.res # "Ok" THEN [res |-> found.res, nodes |-> found.nodes, bus |-> <<>>]
    ELSE PublishAfterHass(found, HassPublished(found, hass_discovery, fail_at), orders, fail_at)

DucoMqttBridge_poll_ducobox(nodes, hass_discovery, fetched, orders, fail_at) ==
    PublishFound(PollFound(nodes, fetched), hass_discovery, orders, fail_at)

\* the bridge and the bus calls after an iteration: nodes is the registry, a
\* what the availability call returned
Iteration(b, nodes, a, loop, res) ==
    [bridge |-> [b EXCEPT !.nodes = nodes, !.online = a.online, !.loop = loop],
     bus |-> a.bus, res |-> res]

\* publish_online whatever poll_ducobox returned
AfterPoll_always_online(b, p, fail_at) ==
    Iteration(b, IF p.res = "Ok" THEN p.nodes ELSE DucoMqttBridge_reset_nodes(p.nodes),
              MqttConnection_publish_online(b.online, p.bus, fail_at), "select", p.res)

\* the body of the interval.tick() arm, p being what poll_ducobox returned
AfterPoll(b, p, fail_at) ==
    IF p.res = "panic"
    THEN Iteration(b, p.nodes, [online |-> b.online, bus |-> p.bus], "panicked", "panic")
    ELSE IF p.res = "Err"
    THEN Iteration(b, DucoMqttBridge_reset_nodes(p.nodes),
                   MqttConnection_publish_offline(b.online, p.bus, fail_at), "select", "Err")
    ELSE Iteration(b, p.nodes, MqttConnection_publish_online(b.online, p.bus, fail_at),
                   "select", "Ok")

AfterPollReturnsError(b, p, fail_at) ==
    IF p.res # "Ok"
    THEN Iteration(b, p.nodes, [online |-> b.online, bus |-> p.bus], "returned", "Err")
    ELSE Iteration(b, p.nodes, MqttConnection_publish_online(b.online, p.bus, fail_at),
                   "select", "Ok")

DucoMqttBridge_run_tick_returns_error(b, fetched, orders, fail_at) ==
    AfterPollReturnsError(b, DucoMqttBridge_poll_ducobox(b.nodes, b.hass_discovery, fetched, orders, fail_at), fail_at)

\* the arm of select! taken on interval.tick()
DucoMqttBridge_run_tick(b, fetched, orders, fail_at) ==
    AfterPoll(b, DucoMqttBridge_poll_ducobox(b.nodes, b.hass_discovery, fetched, orders, fail_at), fail_at)

DucoMqttBridge_run_message_resets_on_error(b, msg) ==
    LET r == DucoMqttBridge_handle_node_command(msg) IN
    [bridge |-> IF r.res = "Ok" THEN b
                ELSE [b EXCEPT !.nodes = DucoMqttBridge_reset_nodes(b.nodes)],
     bus |-> <<>>, res |-> r.res, request |-> r.request]

\* the arm of select! taken on a message from the bus: an error of the
\* handler is logged
DucoMqttBridge_run_message(b, msg) ==
    LET r == DucoMqttBridge_handle_node_command(msg) IN
    [bridge |-> b, bus |-> <<>>, res |-> r.res, request |-> r.request]

MaxPublishes == 4

Info(number, general) ==
    [node |-> number, general |-> general, ventilation |-> EmptyMap, sensor |-> NoSensor]

TypeOnly(type) == [k \in {"Type"} |-> StatusString(type)]

TypeAndSubType(type, sub_type) ==
    [k \in {"Type", "SubType"} |->
        IF k = "Type" THEN StatusString(type) ELSE StatusNumber(sub_type)]

\* what get_nodes may return: an error or a list sorted by node number
FetchedNodes ==
    { [ok |-> FALSE, list |-> <<>>] } \cup
    { [ok |-> TRUE, list |-> l] :
        l \in { <<>>,
                << Info(2, TypeAndSubType("DucoBox", 1)) >>,
                << Info(2, TypeAndSubType("DucoBox", 2)) >>,
                << Info(2, TypeAndSubType("BOX", 1)) >>,
                << Info(2, TypeAndSubType("DucoBox", 1)), Info(67, TypeOnly("DucoBox")) >> } }

NodeActions(number, actions) == [node |-> number, actions |-> actions]

\* what get_node_actions may return: an error or a list sorted by node number
FetchedNodeActions ==
    { [ok |-> FALSE, list |-> <<>>] } \cup
    { [ok |-> TRUE, list |-> l] :
        l \in { <<>>,
                << NodeActions(2, << NodeActionDescription("SetVentilationState", "Enum", TRUE, <<"AUTO", "MAN1">>) >>) >>,
                << NodeActions(67, << NodeActionDescription("SetIdentify", "Boolean", FALSE, <<>>) >>) >>,
                << NodeActions(2, << NodeActionDescription("SetLevel", "Integer", FALSE, <<>>) >>) >>,
                << NodeActions(2, << NodeActionDescription("SetVentilationState", "Enum", TRUE, <<"AUTO", "MAN1">>) >>),
                   NodeActions(67, << NodeActionDescription("SetIdentify", "Boolean", FALSE, <<>>) >>) >> } }

\* node lists in which the device reports a node number twice
RepeatedNodes ==
    { [ok |-> FALSE, list |-> <<>>] } \cup
    { [ok |-> TRUE, list |-> l] :
        l \in { << Info(2, TypeAndSubType("DucoBox", 1)) >>,
                << Info(2, TypeAndSubType("DucoBox", 1)), Info(2, TypeAndSubType("DucoBox", 2)) >>,
                << Info(2, TypeAndSubType("DucoBox", 2)), Info(67, TypeOnly("DucoBox")) >> } }

RepeatedNodeActions ==
    { [ok |-> TRUE, list |-> l] :
        l \in { << NodeActions(2, <<>>) >>,
                << NodeActions(2, <<>>), NodeActions(2, <<>>) >>,
                << NodeActions(2, <<>>), NodeActions(67, <<>>) >> } }

\* one node whose SubType or Type changes, or no answer
RecoveringNodes ==
    { [ok |-> FALSE, list |-> <<>>] } \cup
    { [ok |-> TRUE, list |-> l] :
        l \in { << Info(2, TypeAndSubType("DucoBox", 1)) >>,
                << Info(2, TypeAndSubType("DucoBox", 2)) >>,
                << Info(2, TypeAndSubType("BOX", 1)) >> } }

\* the actions of that node, or no answer
RecoveringNodeActions ==
    { [ok |-> FALSE, list |-> <<>>] } \cup
    { [ok |-> TRUE, list |-> l] :
        l \in { << NodeActions(2, << NodeActionDescription("SetVentilationState", "Enum", TRUE, <<"AUTO", "MAN1">>) >>) >> } }

\* the answers of the device a behaviour draws from
Fetchable(watch) ==
    IF watch = "registry" THEN RepeatedNodes
    ELSE IF watch = "recover" THEN RecoveringNodes
    ELSE FetchedNodes

FetchableActions(watch) ==
    IF watch = "registry" THEN RepeatedNodeActions
    ELSE IF watch = "recover" THEN RecoveringNodeActions
    ELSE FetchedNodeActions

\* get_node_actions is called by discovery only
NotFetched == [ok |-> FALSE, list |-> <<>>]

BridgeMessages ==
    { MqttData(MqttBaseTopic \o "duco_node_2/cmnd/SetVentilationState", "AUTO"),
      MqttData(MqttBaseTopic \o "node_2/cmnd/identification", "1"),
      MqttData(MqttBaseTopic \o "bogus", "") }

\* the topics of the fields of the registry that hold a known value
KnownTopics(nodes) ==
    UNION { { MqttBaseTopic \o DucoBoxNode_status_topic(nodes[i].number, k) :
                k \in KnownKeys(nodes[i].status) } : i \in DOMAIN nodes }

\* the last availability payload the bus accepted, avail if none
LastAvailability(bus, avail) ==
    LET I == { i \in DOMAIN bus : bus[i].ok /\ bus[i].topic = state_topic } IN
    IF I = {} THEN avail ELSE bus[CHOOSE i \in I : \A j \in I : j <= i].payload

BridgeInit ==
    /\ FieldIdle
    /\ EntityIdle
    /\ ctopic = <<>>
    /\ tres = NoTopicResult
    /\ BridgeIdle
    /\ LoopIdle

\* owed: the topics whose field held a known value when a poll failed and on
\* which the bus has accepted no message since
BridgeStep(kind, r, known) ==
    /\ br' = r.bridge
    /\ mq' = r.bus
    /\ hist' = [kind |-> kind, res |-> r.res,
                online0 |-> br.online,
                avail0 |-> hist.avail,
                avail |-> LastAvailability(r.bus, hist.avail),
                owed0 |-> hist.owed,
                owed |-> (hist.owed \ { r.bus[i].topic : i \in { j \in DOMAIN r.bus : r.bus[j].ok } })
                             \cup known,
                failed_poll |-> hist.failed_poll \/ (kind = "tick" /\ r.res = "Err"),
                failed_command |-> hist.failed_command \/ (kind = "message" /\ r.res = "Err")]
    /\ UNCHANGED <<fieldVars, entityVars, cmdVars, topicVars, loopVars>>

\* the status topics whose last payload is recorded
WatchedTopics == { MqttBaseTopic \o DucoBoxNode_status_topic(2, StatusKey(GENERAL, "SubType")) }

\* the payload the bus last accepted on each watched topic, after the calls
\* of bus
LastPublished(last, bus) ==
    LET I == { i \in DOMAIN bus : bus[i].ok /\ bus[i].topic \in WatchedTopics }
        T == { bus[i].topic : i \in I } IN
    [t \in T \cup DOMAIN last |->
        IF t \in T
        THEN bus[CHOOSE i \in I : bus[i].topic = t /\ \A j \in I : bus[j].topic = t => j <= i].payload
        ELSE last[t]]

Observed(fetched, discovery, bus) ==
    [watch |-> obs.watch,
     fetched |-> IF obs.watch \in {"poll", "registry", "recover"} THEN fetched ELSE NothingFetched,
     discovery |-> obs.watch \in {"poll", "registry", "recover"} /\ discovery,
     last |-> IF obs.watch = "bus" THEN LastPublished(obs.last, bus) ELSE <<>>]

RunTick ==
    \E nodes \in Fetchable(obs.watch), fail_at \in 0..MaxPublishes :
    \E node_actions \in IF br.nodes = <<>> THEN FetchableActions(obs.watch) ELSE {NotFetched} :
        LET fetched == [nodes |-> nodes, node_actions |-> node_actions]
            found == PollFound(br.nodes, fetched) IN
        \E orders \in OrderChoices(found.nodes) :
        \E r \in {DucoMqttBridge_run_tick(br, fetched, orders, fail_at)} :
        \E known \in {IF r.res = "Err"
                      THEN KnownTopics(DucoMqttBridge_poll_ducobox(
                                           br.nodes, br.hass_discovery, fetched, orders, fail_at).nodes)
                      ELSE {}} :
            /\ br.loop = "select"
            /\ obs' = Observed(fetched, found.discovery, r.bus)
            /\ BridgeStep("tick", r, known)

RunMessage ==
    \E msg \in BridgeMessages :
        \E r \in {DucoMqttBridge_run_message(br, msg)} :
        /\ br.loop = "select"
        /\ obs' = Observed(NothingFetched, FALSE, r.bus)
        /\ BridgeStep("message", r, {})

BridgeNext ==
    \/ RunTick
    \/ RunMessage

SpecBridge == BridgeInit /\ [][BridgeNext]_vars

\* the bridge with what each poll fetched recorded
PollInit ==
    /\ FieldIdle
    /\ EntityIdle
    /\ ctopic = <<>>
    /\ tres = NoTopicResult
    /\ \E hass_discovery \in BOOLEAN : br = NewBridge(hass_discovery)
    /\ mq = <<>>
    /\ hist = [kind |-> "none", res |-> "Ok", online0 |-> FALSE, avail0 |-> "none",
               avail |-> "none", owed0 |-> {}, owed |-> {},
               failed_poll |-> FALSE, failed_command |-> FALSE]
    /\ obs = Unobserved("poll")
    /\ LoopIdle

SpecPoll == PollInit /\ [][BridgeNext]_vars

\* the bridge with the payload last accepted on each topic recorded
BusInit ==
    /\ FieldIdle
    /\ EntityIdle
    /\ ctopic = <<>>
    /\ tres = NoTopicResult
    /\ br = NewBridge(FALSE)
    /\ mq = <<>>
    /\ hist = [kind |-> "none", res |-> "Ok", online0 |-> FALSE, avail0 |-> "none",
               avail |-> "none", owed0 |-> {}, owed |-> {},
               failed_poll |-> FALSE, failed_command |-> FALSE]
    /\ obs = Unobserved("bus")
    /\ LoopIdle

SpecBus == BusInit /\ [][BridgeNext]_vars

\* the bridge with a device that may report a node number more than once
RegistryInit ==
    /\ FieldIdle
    /\ EntityIdle
    /\ ctopic = <<>>
    /\ tres = NoTopicResult
    /\ br = NewBridge(FALSE)
    /\ mq = <<>>
    /\ hist = [kind |-> "none", res |-> "Ok", online0 |-> FALSE, avail0 |-> "none",
               avail |-> "none", owed0 |-> {}, owed |-> {},
               failed_poll |-> FALSE, failed_command |-> FALSE]
    /\ obs = Unobserved("registry")
    /\ LoopIdle

SpecRegistry == RegistryInit /\ [][BridgeNext]_vars

(* C16: no inbound message and no poll outcome ends the event loop: after  *)
(* every iteration, failed or not, the bridge is back in select!, where    *)
(* the next tick and the next message are handled.                          *)
C16_LoopNeverEnds == br.loop = "select"

\* after a failed poll and a failed command a later tick was handled
C16_Witness ==
    /\ hist.failed_poll
    /\ hist.failed_command
    /\ hist.kind = "tick"
    /\ hist.res = "Ok"
    /\ br.loop = "select"

(* C17: handling an inbound command that ends in an error leaves the node  *)
(* registry as it was: the same nodes with the same field values, dirty    *)
(* flags and command lists.                                                 *)
C17_FailedCommandKeepsRegistry ==
    [][(hist'.kind = "message" /\ hist'.res # "Ok") => br'.nodes = br.nodes]_vars

\* a command failed on a registry of two nodes that holds dirty fields
C17_Witness ==
    /\ hist.kind = "message"
    /\ hist.res = "Err"
    /\ Len(br.nodes) = 2
    /\ \E i \in DOMAIN br.nodes : DirtyKeys(br.nodes[i].status) # {}
    /\ \E i \in DOMAIN br.nodes : br.nodes[i].actions # <<>>

RegistryAllUnknown ==
    \A i \in DOMAIN br.nodes : \A k \in DOMAIN br.nodes[i].status :
        br.nodes[i].status[k].value = StatusString("UNKNOWN")

FailedTick == hist.kind = "tick" /\ hist.res = "Err"

\* C18 as stated: the offline message has been published whenever the
\* bridge was online
C18_Original ==
    FailedTick =>
        /\ RegistryAllUnknown
        /\ hist.online0 => \E i \in DOMAIN mq : mq[i] = Published(state_topic, "offline", TRUE)

(* C18: after a poll tick whose poll fails every field of every Node of    *)
(* the registry holds the unknown sentinel, and if the bridge was online   *)
(* the offline availability message has been handed to the bus before the  *)
(* next wait: it has been published, or its publish failed and the bridge  *)
(* still counts as online.                                                  *)
C18_FailedPollResetsNodes ==
    FailedTick =>
        /\ RegistryAllUnknown
        /\ hist.online0 =>
               \E i \in DOMAIN mq :
                   /\ mq[i].topic = state_topic
                   /\ mq[i].payload = "offline"
                   /\ mq[i].ok \/ br.online
        /\ ~hist.online0 => \A i \in DOMAIN mq : mq[i].topic # state_topic

\* a poll failed while the bridge was online and held a node with fields
C18_Witness ==
    /\ FailedTick
    /\ hist.online0
    /\ ~br.online
    /\ \E i \in DOMAIN br.nodes : Cardinality(DOMAIN br.nodes[i].status) = 2
    /\ mq = << Published(state_topic, "offline", TRUE) >>

(* C19: after a failed poll every field that held a known value before the *)
(* failure is republished with the payload UNKNOWN before any later real    *)
(* value: on a topic owed the unknown value the bus sees UNKNOWN first.     *)
C19_Original ==
    \A i \in DOMAIN mq :
        mq[i].ok /\ mq[i].topic \in hist.owed0 => mq[i].payload = "UNKNOWN"

(* C20: availability messages are edge-triggered: online is published only *)
(* when the availability last published was not online, offline only when  *)
(* it was online, so no two consecutive availability messages carry the    *)
(* same payload and the first one ever published is online.                 *)
C20_AvailabilityEdgeTriggered ==
    /\ \A i \in DOMAIN mq :
           mq[i].topic = state_topic =>
               /\ mq[i].payload = "online" => hist.avail0 # "online"
               /\ mq[i].payload = "offline" => hist.avail0 = "online"
               /\ mq[i].payload \in {"online", "offline"}
    /\ Cardinality({ i \in DOMAIN mq : mq[i].topic = state_topic }) <= 1
    /\ br.online <=> hist.avail = "online"

\* online was published again after an offline
C20_Witness ==
    /\ hist.kind = "tick"
    /\ hist.res = "Ok"
    /\ hist.avail0 = "offline"
    /\ hist.avail = "online"
    /\ \E i \in DOMAIN mq : mq[i] = Published(state_topic, "online", TRUE)

\* a description set_actions cannot convert
Unsupported(description) ==
    \/ description.val_type \notin {"Boolean", "Enum"}
    \/ description.val_type = "Enum" /\ ~description.values.some

\* the command a supported description stands for
CommandOf(description) ==
    IF description.val_type = "Boolean" THEN SetBoolean(description.action)
    ELSE SetEnum(description.action, description.values.list)

(* C28: set_actions is all-or-nothing: with a description whose ValType is *)
(* neither Boolean nor Enum, or an Enum without a value list, it returns   *)
(* an error and leaves the node, its command list included, as it was;     *)
(* otherwise the list becomes one command per description, in order.       *)
C28_SetActionsAllOrNothing ==
    [][cop'.op = "set_actions" =>
           IF \E i \in DOMAIN cop'.actions : Unsupported(cop'.actions[i])
           THEN cop'.res = "Err" /\ node' = node
           ELSE /\ cop'.res = "Ok"
                /\ node' = [node EXCEPT !.actions =
                                [i \in DOMAIN cop'.actions |-> CommandOf(cop'.actions[i])]]]_vars

\* a list whose first description converts and whose second does not was
\* refused on a node that already had commands
C28_Witness ==
    /\ cop.op = "set_actions"
    /\ cop.res = "Err"
    /\ Len(cop.actions) = 2
    /\ ~Unsupported(cop.actions[1])
    /\ Unsupported(cop.actions[2])
    /\ Len(node.actions) = 2

\* the last iteration was a poll tick that ran discovery
DiscoveryTick == hist.kind = "tick" /\ obs.discovery

\* the two lists differ in length or in the node number at some position
ListsMismatch(infos, actions) ==
    \/ Len(infos) # Len(actions)
    \/ \E i \in DOMAIN infos \cap DOMAIN actions : infos[i].node # actions[i].node

(* C21: discovery fails whenever the node-info list and the node-actions   *)
(* list differ in length or, position by position, in node number; a      *)
(* failed discovery leaves the registry empty, and after a successful one  *)
(* the registry holds one Node per node info, in order, whose command list *)
(* is that of the actions entry with the same node number.                 *)
C21_DiscoveryRequiresMatchingLists ==
    DiscoveryTick =>
        LET infos == obs.fetched.nodes
            actions == obs.fetched.node_actions IN
        /\ (infos.ok /\ actions.ok /\ ListsMismatch(infos.list, actions.list)) =>
               hist.res = "Err" /\ br.nodes = <<>>
        /\ br.nodes # <<>> =>
               /\ infos.ok /\ actions.ok
               /\ Len(br.nodes) = Len(infos.list)
               /\ \A i \in DOMAIN br.nodes :
                      /\ br.nodes[i].number = infos.list[i].node
                      /\ \E j \in DOMAIN actions.list :
                             /\ actions.list[j].node = br.nodes[i].number
                             /\ br.nodes[i].actions =
                                    [k \in DOMAIN actions.list[j].actions |->
                                        CommandOf(actions.list[j].actions[k])]

\* discovery was refused for lists of one length that name different nodes
C21_Witness ==
    /\ DiscoveryTick
    /\ obs.fetched.nodes.ok /\ obs.fetched.node_actions.ok
    /\ Len(obs.fetched.nodes.list) = 1
    /\ Len(obs.fetched.node_actions.list) = 1
    /\ obs.fetched.nodes.list[1].node # obs.fetched.node_actions.list[1].node
    /\ hist.res = "Err"
    /\ br.nodes = <<>>

\* the node numbers of a registry or of a list of node infos
Numbers(nodes) == { nodes[i].number : i \in DOMAIN nodes }

Reported(infos) == { infos[i].node : i \in DOMAIN infos }

\* the field values of a node, without the dirty flags
Values(n) == [k \in DOMAIN n.status |-> n.status[k].value]

\* the node holds every value the info reports in its General section
HoldsReport(n, info) ==
    \A name \in DOMAIN info.general :
        /\ StatusKey(GENERAL, name) \in DOMAIN n.status
        /\ n.status[StatusKey(GENERAL, name)].value = info.general[name]

\* the step is a successful poll tick that merged what it fetched
MergeTick == hist'.kind = "tick" /\ hist'.res = "Ok" /\ br.nodes # <<>>

DeviceReportsActions(number) ==
    \E a \in FetchedNodeActions : \E j \in DOMAIN a.list :
        a.ok /\ a.list[j].node = number /\ a.list[j].actions # <<>>

(* C23: every Node of the registry has its command list populated from the *)
(* observation that created it: no registered Node has an empty command    *)
(* list while the device reports actions for it.                            *)
C23_Original ==
    \A i \in DOMAIN br.nodes :
        br.nodes[i].actions = <<>> => ~DeviceReportsActions(br.nodes[i].number)

\* the node info reports a type NodeType has a variant for
Recognized(info) ==
    /\ "Type" \in DOMAIN info.general
    /\ info.general["Type"].tag = "String"
    /\ NodeType_from_str(info.general["Type"].s).ok

\* the device answered both requests of discovery with matching lists of
\* supported actions, and the bus accepted every publish
DiscoveryAnswered ==
    /\ DiscoveryTick
    /\ obs.fetched.nodes.ok /\ obs.fetched.node_actions.ok
    /\ ~ListsMismatch(obs.fetched.nodes.list, obs.fetched.node_actions.list)
    /\ \A j \in DOMAIN obs.fetched.node_actions.list :
           \A k \in DOMAIN obs.fetched.node_actions.list[j].actions :
               ~Unsupported(obs.fetched.node_actions.list[j].actions[k])
    /\ \A i \in DOMAIN mq : mq[i].ok

(* C27: discovery tolerates nodes whose reported type is not recognized:   *)
(* the poll succeeds, no Node is constructed for such a node and a Node is *)
(* constructed for every recognized one.                                    *)
C27_Original ==
    DiscoveryAnswered =>
        /\ hist.res = "Ok"
        /\ Numbers(br.nodes) =
               { obs.fetched.nodes.list[i].node :
                   i \in { j \in DOMAIN obs.fetched.nodes.list : Recognized(obs.fetched.nodes.list[j]) } }

\* a publish that is neither a status message of a Node of the registry nor
\* the availability message: a home-automation description
IsDescription(m, nodes) ==
    /\ m.topic # state_topic
    /\ \A i \in DOMAIN nodes : \A k \in DOMAIN nodes[i].status :
           m.topic # MqttBaseTopic \o DucoBoxNode_status_topic(nodes[i].number, k)

(* C30: a poll tick runs discovery exactly when the registry is empty at   *)
(* its start; a non-empty registry never becomes empty, so discovery never *)
(* runs again; descriptions for home automation are published only by a    *)
(* tick that ran discovery with the discovery flag set and left a          *)
(* non-empty registry, hence at most once per node.                         *)
C30_DiscoveryIffRegistryEmpty ==
    [][hist'.kind = "tick" =>
           /\ obs'.discovery <=> br.nodes = <<>>
           /\ br.nodes # <<>> => br'.nodes # <<>>
           /\ br'.hass_discovery = br.hass_discovery
           /\ \A i \in DOMAIN mq' :
                  IsDescription(mq'[i], br'.nodes) =>
                      br.hass_discovery /\ obs'.discovery /\ br'.nodes # <<>>]_vars

\* with the discovery flag set, a tick after a failed poll found the
\* registry non-empty and merged
C30_Witness ==
    /\ hist.kind = "tick"
    /\ hist.failed_poll
    /\ br.hass_discovery
    /\ ~obs.discovery
    /\ obs.fetched.nodes.ok
    /\ Len(br.nodes) = 2

(* C26: a status message is published only when the field's value differs  *)
(* from the value last published for it: no accepted message on a watched  *)
(* topic carries the payload the bus last accepted on that topic.           *)
C26_Original ==
    [][\A i \in DOMAIN mq' :
           (mq'[i].ok /\ mq'[i].topic \in DOMAIN obs.last) =>
               mq'[i].payload # obs.last[mq'[i].topic]]_vars

-----------------------------------------------------------------------------
(* The register generation of the node (duxoboxnode.rs), the DucoBoxNode   *)
(* bridge.rs imports: process_command writes a holding register over       *)
(* modbus.  The payload is a sequence of characters as in the topics.      *)

\* #[derive(EnumString)] enum VentilationPosition with its serialize names
VentilationPositionNames ==
    { [text |-> <<"Auto">>, value |-> 0],
      [text |-> <<"Manual", " ", "1">>, value |-> 4],
      [text |-> <<"Manual", " ", "2">>, value |-> 5],
      [text |-> <<"Manual", " ", "3">>, value |-> 6],
      [text |-> <<"Not", " ", "at", " ", "home">>, value |-> 7],
      [text |-> <<"Permanent", " ", "1">>, value |-> 8],
      [text |-> <<"Permanent", " ", "2">>, value |-> 9],
      [text |-> <<"Permanent", " ", "3">>, value |-> 10],
      [text |-> <<"Unknown">>, value |-> 11] }

VentilationPosition_from_str(s) ==
    IF \E p \in VentilationPositionNames : p.text = s
    THEN [ok |-> TRUE, value |-> (CHOOSE p \in VentilationPositionNames : p.text = s).value]
    ELSE [ok |-> FALSE, value |-> 0]

\* reg as u16
HoldingRegister_as_u16(reg) ==
    CASE reg = "VentilationPosition" -> 0
      [] reg = "Identification" -> 1
      [] reg = "SupplyTemperatureTargetZone1" -> 2
      [] reg = "SupplyTemperatureTargetZone2" -> 3

NoWrite == [done |-> FALSE, address |-> 0, value |-> 0]

RegisterResult(res, write) == [res |-> res, write |-> write]

RegisterValueOf_any_number(reg, value) ==
    IF reg = "VentilationPosition"
    THEN LET p == VentilationPosition_from_str(value) IN
         IF p.ok THEN [res |-> "Ok", value |-> p.value]
         ELSE [res |-> "panic", value |-> 0]
    ELSE IF reg = "Identification"
    THEN LET n == u16_from_str(value) IN
         IF ~n.ok THEN [res |-> "Err", value |-> 0]
         ELSE [res |-> "Ok", value |-> n.n]
    ELSE [res |-> "panic", value |-> 0]

\* the match on reg: the value to write, an error or a panic
RegisterValueOf(reg, value) ==
    IF reg = "VentilationPosition"
    THEN LET p == VentilationPosition_from_str(value) IN
         IF p.ok THEN [res |-> "Ok", value |-> p.value]   \* from_str(value).unwrap()
         ELSE [res |-> "panic", value |-> 0]
    ELSE IF reg = "Identification"
    THEN LET n == u16_from_str(value) IN
         IF ~n.ok THEN [res |-> "Err", value |-> 0]
         ELSE IF n.n > 1 THEN [res |-> "Err", value |-> 0]
         ELSE [res |-> "Ok", value |-> n.n]
    ELSE [res |-> "panic", value |-> 0]                    \* todo!()

\* modbus.write_holding_register(address, register_value).await?
WriteRegister(address, register_value, written) ==
    IF written
    THEN RegisterResult("Ok", [done |-> TRUE, address |-> address, value |-> register_value])
    ELSE RegisterResult("Err", NoWrite)

\* self.number() * 100 + reg as u16 in u16: with overflow checks (a debug
\* build) an overflow panics, without them it wraps
AddressOf(number, reg, register_value, overflow_checks, written) ==
    LET address == number * 100 + HoldingRegister_as_u16(reg) IN
    IF address <= U16Max THEN WriteRegister(address, register_value, written)
    ELSE IF overflow_checks THEN RegisterResult("panic", NoWrite)
    ELSE WriteRegister(address % (U16Max + 1), register_value, written)

AfterValue(number, reg, v, overflow_checks, written) ==
    IF v.res # "Ok" THEN RegisterResult(v.res, NoWrite)
    ELSE AddressOf(number, reg, v.value, overflow_checks, written)

\* duxoboxnode.rs DucoBoxNode::process_command(&self, reg, value, modbus)
duxoboxnode_DucoBoxNode_process_command(number, reg, value, overflow_checks, written) ==
    AfterValue(number, reg, RegisterValueOf(reg, value), overflow_checks, written)

\* node numbers: the controller's small ones and the two around the
\* largest whose register addresses fit u16
RegisterNodeNumbers == {1, 2, 67, 655, 656}

RegisterPayloads ==
    { <<"Auto">>, <<"Manual", " ", "1">>, <<"AUTO">>, <<"0">>, <<"1">>, <<"2">>,
      <<"+", "1">>, <<"0", "1">>, <<"6", "5", "5", "3", "6">>, <<"bogus">>, <<>> }

RegisterInit ==
    /\ FieldIdle
    /\ EntityIdle
    /\ RestIdle

RegProcessCommand ==
    \E number \in RegisterNodeNumbers, reg \in HoldingRegisterNames, value \in RegisterPayloads,
       overflow_checks \in BOOLEAN, written \in BOOLEAN :
        LET r == duxoboxnode_DucoBoxNode_process_command(number, reg.variant, value,
                                                         overflow_checks, written) IN
        /\ cop' = [op |-> "register_command", name |-> reg.variant, data |-> value,
                   actions |-> <<>>, res |-> r.res, request |-> NoRequest,
                   node |-> number, write |-> r.write]
        /\ UNCHANGED <<fieldVars, entityVars, restVars>>

RegisterNext == RegProcessCommand

SpecRegister == RegisterInit /\ [][RegisterNext]_vars

(* C25: no externally triggered input drives the bridge into a panic: every *)
(* command payload for every holding register ends in a successful result  *)
(* or a returned error.                                                      *)
C25_Original == cop.op = "register_command" => cop.res \in {"Ok", "Err"}

-----------------------------------------------------------------------------
(***************************************************************************)
(* run, await by await (bridge.rs).  One task executes the loop: select!   *)
(* waits for a bus event or for the interval, and the chosen arm awaits    *)
(* its handler before the loop comes back to select!.  lp.pc is the await  *)
(* the task is parked on.  The timer, the bus and the device move on their *)
(* own, also while a handler is in flight.                                 *)
(***************************************************************************)

MaxInbox == 2

MaxBusEvents == 1

Handlers == {"poll", "command"}

\* The next event is selected only where the loop body starts over.
SelectReady_any_time(l) == TRUE

SelectReady(l) == l.pc = "select"

\* The arm an iteration took and the handlers its body started.
Selected(l, arm, handler) ==
    [l EXCEPT !.arm = arm,
              !.handled = IF handler = "none" THEN {} ELSE {handler},
              !.inflight = IF handler = "none" THEN @ ELSE @ \cup {handler}]

Completed(l, handler) == [l EXCEPT !.pc = "select", !.inflight = @ \ {handler}]

\* reset_nodes leaves an empty registry empty; known values become UNKNOWN.
RegistryAfterReset(registry) == IF registry = "empty" THEN "empty" ELSE "unknown"

LoopFrame == UNCHANGED <<fieldVars, entityVars, cmdVars, topicVars, bridgeVars>>

LoopInit ==
    /\ FieldIdle
    /\ EntityIdle
    /\ RestIdle

\* interval.tick() completes: poll_ducobox starts and sends its first request.
TickSelected ==
    /\ SelectReady(lp)
    /\ lp.tick_due
    /\ lp' = [Selected(lp, "tick", "poll") EXCEPT !.tick_due = FALSE, !.pc = "get_nodes",
                                                  !.device = "asked"]
    /\ LoopFrame

\* mqtt.poll() yields Ok(Some(msg)): handle_node_command starts.
MessageSelected ==
    /\ SelectReady(lp)
    /\ lp.inbox > 0
    /\ lp' = [Selected(lp, "mqtt", "command") EXCEPT !.inbox = @ - 1,
                                                     !.pc = "handle_node_command"]
    /\ LoopFrame

\* mqtt.poll() yields Ok(None): an acknowledgement, a ping or a poll error.
\* The arm's body runs no handler.
BusEventSelected ==
    /\ SelectReady(lp)
    /\ lp.events > 0
    /\ lp' = [Selected(lp, "mqtt", "none") EXCEPT !.events = @ - 1]
    /\ LoopFrame

\* handle_node_command returns its error, which the arm logs.
CommandReturns ==
    /\ lp.pc = "handle_node_command"
    /\ lp' = Completed(lp, "command")
    /\ LoopFrame

\* send().await of get_nodes completes once the device has answered.
GetNodesReturns ==
    /\ lp.pc = "get_nodes"
    /\ lp.device \in {"ok", "err"}
    /\ \E merged \in BOOLEAN, changed \in BOOLEAN :
        lp' = IF lp.device = "err"
              THEN [lp EXCEPT !.device = "idle", !.pc = "poll_failed"]
              ELSE IF lp.registry = "empty"
              THEN [lp EXCEPT !.device = "asked", !.pc = "get_node_actions"]
              ELSE IF merged
              THEN [lp EXCEPT !.device = "idle", !.pc = "publish_nodes", !.registry = "known"]
              ELSE [lp EXCEPT !.device = "idle", !.pc = "poll_failed",
                              !.registry = IF changed THEN "known" ELSE @]
    /\ LoopFrame

\* send().await of get_node_actions completes; discover_nodes builds the nodes.
GetNodeActionsReturns ==
    /\ lp.pc = "get_node_actions"
    /\ lp.device \in {"ok", "err"}
    /\ \E built \in BOOLEAN :
        lp' = IF lp.device = "ok" /\ built
              THEN [lp EXCEPT !.device = "idle", !.pc = "publish_nodes", !.registry = "known"]
              ELSE [lp EXCEPT !.device = "idle", !.pc = "poll_failed"]
    /\ LoopFrame

\* publish_nodes hands its messages to the client.
PublishNodesReturns ==
    /\ lp.pc = "publish_nodes"
    /\ \E accepted \in BOOLEAN :
        lp' = [lp EXCEPT !.pc = IF accepted THEN "poll_ok" ELSE "poll_failed"]
    /\ LoopFrame

\* The Err arm: reset_nodes, publish_offline.
PollFailed ==
    /\ lp.pc = "poll_failed"
    /\ lp' = [Completed(lp, "poll") EXCEPT !.registry = RegistryAfterReset(@)]
    /\ LoopFrame

\* The Ok arm: publish_online.
PollSucceeded ==
    /\ lp.pc = "poll_ok"
    /\ lp' = Completed(lp, "poll")
    /\ LoopFrame

\* The poll interval elapses.
TimerElapses ==
    /\ ~lp.tick_due
    /\ lp' = [lp EXCEPT !.tick_due = TRUE]
    /\ LoopFrame

\* The broker delivers a command message to the subscription.
BusDelivers ==
    /\ lp.inbox < MaxInbox
    /\ lp' = [lp EXCEPT !.inbox = @ + 1]
    /\ LoopFrame

\* The connection has an event that carries no message.
BusNotifies ==
    /\ lp.events < MaxBusEvents
    /\ lp' = [lp EXCEPT !.events = @ + 1]
    /\ LoopFrame

\* The device answers the request it was sent; nothing makes it answer.
DeviceAnswers ==
    /\ lp.device = "asked"
    /\ \E answer \in {"ok", "err"} : lp' = [lp EXCEPT !.device = answer]
    /\ LoopFrame

\* The steps of the bridge's own task.
LoopProgram ==
    \/ TickSelected
    \/ MessageSelected
    \/ BusEventSelected
    \/ CommandReturns
    \/ GetNodesReturns
    \/ GetNodeActionsReturns
    \/ PublishNodesReturns
    \/ PollFailed
    \/ PollSucceeded

LoopEnvironment ==
    \/ TimerElapses
    \/ BusDelivers
    \/ BusNotifies
    \/ DeviceAnswers

LoopNext == LoopProgram \/ LoopEnvironment

SpecLoop == LoopInit /\ [][LoopNext]_vars

(* C24, as stated: a poll and a command dispatch are never in flight at    *)
(* the same time, and every loop iteration that has come back to select!   *)
(* handled exactly one of the poll tick and an inbound message.            *)
C24_Original ==
    /\ Cardinality(lp.inflight) <= 1
    /\ (lp.pc = "select" /\ lp.arm # "none") => Cardinality(lp.handled) = 1

(* C24: a poll and a command dispatch are never in flight at the same      *)
(* time.  An iteration starts at most one handler (the tick arm always the *)
(* poll, the bus arm the command dispatch or, for an event without a       *)
(* message, none), a handler starts only from select! with none in flight, *)
(* the loop is back at select! exactly when none is in flight, and the     *)
(* Node registry changes only in steps of the one poll in flight.          *)
C24_HandlersSerialized ==
    [][/\ Cardinality(lp'.inflight) <= 1
       /\ Cardinality(lp'.handled) <= 1
       /\ lp'.inflight \subseteq lp'.handled
       /\ (lp'.inflight # lp.inflight /\ lp'.inflight # {})
            => (lp.pc = "select" /\ lp.inflight = {})
       /\ (lp'.pc = "select") <=> (lp'.inflight = {})
       /\ lp'.arm = "tick" => lp'.handled = {"poll"}
       /\ lp'.registry # lp.registry => (lp.inflight = {"poll"} /\ lp'.inflight \subseteq {"poll"})
      ]_vars

\* A poll waits for the device while the interval has elapsed again and a
\* command message is pending.
C24_Witness ==
    /\ lp.inflight = {"poll"}
    /\ lp.pc = "get_node_actions"
    /\ lp.device = "asked"
    /\ lp.tick_due
    /\ lp.inbox > 0

(* C29: a fetch or dispatch in flight returns even if the device never     *)
(* answers: whenever the loop is not waiting in select!, the bridge's own  *)
(* task has a step it can take without the device (a timeout at the        *)
(* latest).                                                                *)
C29_Original == lp.pc = "select" \/ ENABLED LoopProgram

-----------------------------------------------------------------------------
(* C31: StatusValue equality is structural and never holds across variants. *)
(* Seen through set(v) on a clean field holding c: the field stays clean    *)
(* exactly when v and c are of the same variant with the same payload       *)
(* (String: the same text, Number: the same number), and a Number set on a  *)
(* String, or a String on a Number, marks the field dirty and is stored     *)
(* even when the decimal text of the number is the string.                  *)
C31_EqualityStructural ==
    (fop.obj = "InfoValue" /\ fop.op = "set" /\ ~fop.pre.modified) =>
        LET v == fop.arg
            c == fop.pre.value
            same == IF v.tag # c.tag THEN FALSE
                    ELSE IF v.tag = "String" THEN v.s = c.s
                    ELSE v.n = c.n
        IN  /\ iv.modified <=> ~same
            /\ iv.value = v
            /\ v.tag # c.tag => iv.modified

\* set(Number(1)) was called on a clean field holding String("1"); the field
\* is dirty and holds the number.
C31_Witness ==
    /\ fop.obj = "InfoValue"
    /\ fop.op = "set"
    /\ ~fop.pre.modified
    /\ fop.pre.value = StatusString("1")
    /\ fop.arg = StatusNumber(1)
    /\ iv = [value |-> StatusNumber(1), modified |-> TRUE]

-----------------------------------------------------------------------------
(* C32: the register address a command writes is n * 100 + r for the node  *)
(* number n and the register offset r, without 16-bit overflow or          *)
(* wrap-around: a command whose payload is valid never panics on the       *)
(* address, and a write it makes goes to exactly that address.             *)
C32_Original ==
    (cop.op = "register_command" /\ RegisterValueOf(cop.name, cop.data).res = "Ok") =>
        /\ cop.res # "panic"
        /\ cop.write.done =>
               cop.write.address = cop.node * 100 + HoldingRegister_as_u16(cop.name)

-----------------------------------------------------------------------------
(* C33: in every state reachable through set and get_and_reset calls, a    *)
(* field that is not dirty has been taken at least once and stores exactly *)
(* the value its most recent get_and_reset returned.                       *)
C33_CleanFieldHoldsLastTaken ==
    \A o \in FieldObjects :
        ~FieldOf(o).modified => (taken[o].has /\ FieldOf(o).value = taken[o].val)

\* A taken InfoValue was set to another value, taken again, and then set to
\* the value it holds: it is clean and holds the value last taken.
C33_Witness ==
    /\ fop.obj = "InfoValue"
    /\ fop.op = "set"
    /\ fprev.obj = "InfoValue"
    /\ fprev.op \in {"get_and_reset", "drain"}
    /\ ~fprev.first
    /\ ~iv.modified
    /\ iv.value = taken.InfoValue.val

-----------------------------------------------------------------------------
\* The last iteration was a poll tick whose fetch, merge and publishes all
\* succeeded.
SuccessfulTick ==
    /\ hist.kind = "tick"
    /\ hist.res = "Ok"
    /\ \A i \in DOMAIN mq : mq[i].ok

(* C34: after every poll tick that completes successfully no field of any  *)
(* Node in the registry is dirty, and the payload the bus last accepted on *)
(* the field's topic is the rendering of the field's stored value,         *)
(* whatever failed polls, failed publishes and resets came before.         *)
C34_Original ==
    SuccessfulTick =>
        \A i \in DOMAIN br.nodes : \A k \in DOMAIN br.nodes[i].status :
            LET topic == MqttBaseTopic \o DucoBoxNode_status_topic(br.nodes[i].number, k)
                field == br.nodes[i].status[k] IN
            /\ ~field.modified
            /\ topic \in WatchedTopics =>
                   /\ topic \in DOMAIN obs.last
                   /\ obs.last[topic] = StatusValue_to_string(field.value)

-----------------------------------------------------------------------------
(* C35: in every reachable state of the bridge the node numbers of the     *)
(* Nodes in the registry are pairwise distinct, also when the device       *)
(* reports a node number more than once.                                    *)
C35_Original ==
    \A i \in DOMAIN br.nodes : \A j \in DOMAIN br.nodes :
        i # j => br.nodes[i].number # br.nodes[j].number

(* C36: every call of update_status is made with a report of the node's    *)
(* own number: no poll tick ends in the node-number assertion, whatever    *)
(* the device reports, and after a tick whose poll succeeded every report  *)
(* fetched is held by a Node of the report's number.                        *)
C36_ReportMergedIntoOwnNode ==
    [][hist'.kind = "tick" =>
          /\ hist'.res # "panic"
          /\ br'.loop # "panicked"
          /\ hist'.res = "Ok" =>
                 \A k \in DOMAIN obs'.fetched.nodes.list :
                     \E i \in DOMAIN br'.nodes :
                         br'.nodes[i].number = obs'.fetched.nodes.list[k].node
      ]_vars

\* A merge into a registry of two nodes in which the device reported node 2
\* twice: update_status ran twice on the node found by number 2.
C36_Witness ==
    /\ hist.kind = "tick"
    /\ hist.res = "Ok"
    /\ ~obs.discovery
    /\ Len(obs.fetched.nodes.list) = 2
    /\ \A k \in DOMAIN obs.fetched.nodes.list : obs.fetched.nodes.list[k].node = 2
    /\ Len(br.nodes) = 2
    /\ br.nodes[1].number = 2
    /\ br.nodes[2].number = 67

-----------------------------------------------------------------------------
\* the calls of the last iteration on the availability topic
AvailabilityCalls == { i \in DOMAIN mq : mq[i].topic = state_topic }

(* C37: within one poll tick the status messages are published before the *)
(* availability message.  "online" is published only after the fetch, the *)
(* merge and every field publish of the tick succeeded; if any of them     *)
(* fails the tick publishes no "online", resets the nodes and, if the      *)
(* bridge was online, publishes "offline".                                  *)
C37_StatusBeforeAvailability ==
    hist.kind = "tick" =>
        /\ AvailabilityCalls \subseteq {Len(mq)}
        /\ \A i \in AvailabilityCalls :
               mq[i].payload = ONLINE_PAYLOAD =>
                   /\ hist.res = "Ok"
                   /\ obs.fetched.nodes.ok
                   /\ ~hist.online0
                   /\ \A j \in 1..(i - 1) : mq[j].ok
        /\ (hist.res = "Ok" /\ ~hist.online0) =>
               (AvailabilityCalls # {} /\ mq[Len(mq)].payload = ONLINE_PAYLOAD)
        /\ hist.res # "Ok" =>
               /\ RegistryAllUnknown
               /\ \A i \in AvailabilityCalls : mq[i].payload = OFFLINE_PAYLOAD
               /\ hist.online0 <=> AvailabilityCalls # {}

\* A tick of an online bridge published one field, was refused the next and
\* then published "offline".
C37_Witness ==
    /\ hist.kind = "tick"
    /\ hist.res = "Err"
    /\ hist.online0
    /\ Len(mq) = 3
    /\ mq[1].ok
    /\ ~mq[2].ok
    /\ mq[3] = Published(state_topic, OFFLINE_PAYLOAD, TRUE)

-----------------------------------------------------------------------------
\* the bridge with one node that the device keeps reporting
RecoverInit ==
    /\ FieldIdle
    /\ EntityIdle
    /\ ctopic = <<>>
    /\ tres = NoTopicResult
    /\ br = NewBridge(FALSE)
    /\ mq = <<>>
    /\ hist = [kind |-> "none", res |-> "Ok", online0 |-> FALSE, avail0 |-> "none",
               avail |-> "none", owed0 |-> {}, owed |-> {},
               failed_poll |-> FALSE, failed_command |-> FALSE]
    /\ obs = Unobserved("recover")
    /\ LoopIdle

\* The interval keeps ticking: tokio's interval completes a tick every
\* poll_interval, and select! takes it when the loop is back.
SpecRecover == RecoverInit /\ [][BridgeNext]_vars /\ WF_vars(RunTick)

\* Every bus call of the last iteration was accepted.
AllAccepted == \A i \in DOMAIN mq : mq[i].ok

\* The last iteration, if a tick, had its fetches answered and its publishes
\* accepted.
FetchedAndPublished ==
    hist.kind = "tick" =>
        /\ obs.fetched.nodes.ok
        /\ obs.discovery => obs.fetched.node_actions.ok
        /\ AllAccepted

\* The last iteration, if a tick, had its poll succeed and its publishes
\* accepted.
PolledAndPublished == hist.kind = "tick" => (hist.res = "Ok" /\ AllAccepted)

\* The fields the last tick fetched whose topic was owed a message since a
\* failed poll have had their reported value accepted by the bus.
Republished ==
    (hist.kind = "tick" /\ hist.res = "Ok") =>
        \A k \in DOMAIN obs.fetched.nodes.list :
            LET report == obs.fetched.nodes.list[k] IN
            \A name \in DOMAIN report.general :
                LET topic == MqttBaseTopic
                                 \o DucoBoxNode_status_topic(report.node, StatusKey(GENERAL, name)) IN
                topic \in hist.owed0 =>
                    \E i \in DOMAIN mq :
                        mq[i] = Published(topic, StatusValue_to_string(report.general[name]), TRUE)

Recovered ==
    /\ hist.avail = ONLINE_PAYLOAD
    /\ \A i \in DOMAIN mq : mq[i].payload # OFFLINE_PAYLOAD
    /\ Republished

(* C38, as stated: if from some point on every device fetch and every bus  *)
(* publish succeeds and poll ticks keep occurring, then eventually the     *)
(* last availability message is "online", no further "offline" is          *)
(* published, and every field that was reset and is reported again is      *)
(* republished with its real value.                                         *)
C38_Original == (<>[]FetchedAndPublished) => <>[]Recovered

\* The last tick fetched only nodes whose type NodeType::from_str accepts.
RecognisedTypes ==
    hist.kind = "tick" =>
        \A k \in DOMAIN obs.fetched.nodes.list :
            NodeType_from_str(obs.fetched.nodes.list[k].general["Type"].s).ok

(* The same recovery when, in addition, every node the device reports has  *)
(* a type the bridge recognises.                                            *)
C38_LiveForRecognisedTypes ==
    (<>[](FetchedAndPublished /\ RecognisedTypes)) => <>[]Recovered

\* After a failed poll of an online bridge a tick succeeded, went online
\* again and republished a field the failed poll had reset.
C38_Witness ==
    /\ hist.kind = "tick"
    /\ hist.res = "Ok"
    /\ hist.failed_poll
    /\ hist.avail0 = OFFLINE_PAYLOAD
    /\ hist.avail = ONLINE_PAYLOAD
    /\ hist.owed0 # {}
    /\ hist.owed = {}
    /\ AllAccepted

-----------------------------------------------------------------------------
\* The payload without one leading "+".
Unsigned(data) == IF Len(data) > 0 /\ data[1] = "+" THEN Tail(data) ELSE data

\* The payload is the decimal text of 0 or of 1: digits only, all "0" but
\* possibly a last "1".
ZeroOrOne(data) ==
    LET d == Unsigned(data) IN
    /\ Len(d) > 0
    /\ \A i \in 1..(Len(d) - 1) : d[i] = "0"
    /\ d[Len(d)] \in {"0", "1"}

(* C39: an Identification command of the register-based node writes the   *)
(* holding register only with the value 0 or 1; a payload that is not the  *)
(* text of 0 or 1 (not an unsigned integer, or greater than 1) returns an  *)
(* error and writes no register; and any command that returned an error    *)
(* wrote no register.                                                       *)
C39_IdentificationWritesZeroOrOne ==
    cop.op = "register_command" =>
        /\ cop.name = "Identification" =>
               /\ cop.write.done => cop.write.value \in {0, 1}
               /\ ~ZeroOrOne(cop.data) => (cop.res = "Err" /\ ~cop.write.done)
        /\ cop.res = "Err" => ~cop.write.done

\* Identification with the payload "2" was refused and wrote nothing.
C39_Witness ==
    /\ cop.op = "register_command"
    /\ cop.name = "Identification"
    /\ cop.data = <<"2">>
    /\ cop.res = "Err"
    /\ cop.write = NoWrite

=============================================================================
